---- MODULE Spec2Model ----
(***************************************************************************)
(* Status tracking and alerting engine of chub-status-lite.                *)
(*                                                                         *)
(* One asyncio event loop runs the poll task (StatusCog.status_loop), the  *)
(* setup command handlers (SetupCog.setup_notifications) and nothing else  *)
(* that touches the state below.  An action is one run of a coroutine      *)
(* between two of its awaits; pc is the poll task's position.              *)
(***************************************************************************)
EXTENDS Integers, Sequences, FiniteSets, TLC

(***************************************************************************)
(* Bounds of the model.                                                    *)
(***************************************************************************)
\* upstream timestamps are 1..MaxTs (0 stands for None)
MaxTs == 2
\* consecutive_red is an unbounded Python int; samples that would take it
\* past MaxRed are not fed
MaxRed == 3

(***************************************************************************)
(* Program constants.                                                      *)
(***************************************************************************)
DOWN_THRESHOLD == 2
RECOVERY_THRESHOLD == 3

\* the first entries of MODEL_ORDER
MODEL_ORDER == <<"asha", "soji">>
ModelNames == {MODEL_ORDER[i] : i \in 1..Len(MODEL_ORDER)}

\* guild ids, in the order SQLite returns their guild_config rows
GuildSeq == <<1, 2>>
Guilds == {GuildSeq[i] : i \in 1..Len(GuildSeq)}

\* raw health labels: the four the display knows, the parser's default for a
\* record without a health field, and one no code names
HealthLabels == {"green", "yellow", "orange", "red", "unknown", "purple"}

VARIABLES
    notif_config,          \* guild_config.notification_channel_id / _role_id
    alert_db,              \* table alert_state: guild -> (model_name -> row)
    alert_states,          \* StatusCog.alert_states: guild -> (model_name -> ModelAlertState)
    last_timestamp,        \* StatusHistory.last_timestamp, 0 for None
    last_raw_json,         \* ChubAPIClient._last_raw_json, <<>> for None
    pc,                    \* position of the poll task
    status,                \* the ChubStatus the running cycle holds
    todo,                  \* configs _process_notifications still has to visit
    midx,                  \* index into status.models of the per-model loop
    models_now_down,       \* local list of _process_guild_notifications
    models_now_recovered,  \* local list of _process_guild_notifications
    sent,                  \* messages the alert sink accepted since the last accepted snapshot
    clearing,              \* guilds whose clear handler is between its two database calls
    max_depth,             \* StatusHistory.max_depth, the configured history_depth
    history,               \* StatusHistory.history: model_name -> deque, oldest first
    status_log,            \* table status_log: model_name -> its newest max_depth rows
    status_channel,        \* guild_config.status_channel_id, 0 for NULL
    etodo,                 \* configs _update_all_embeds still has to visit
    rendered,              \* guilds whose embed the display sink accepted since the
                           \* last accepted snapshot
    script,                \* the health labels a scripted upstream reports, in order
    pos,                   \* how many of them it has reported
    current_loop,          \* status_loop.current_loop, the iterations started, modulo
                           \* LoopMod where they are counted
    delivered,             \* the alert sink's record where it is kept: per guild and
                           \* model the kind of the last notification it accepted, and
                           \* whether the key has made the opposite transition since
    reacted,               \* whether the user's subscription reaction is on the status
                           \* message
    has_role,              \* whether the member holds the notification role
    reaction_cooldowns,    \* StatusCog.reaction_cooldowns of the user, 0 for no entry
    clock,                 \* what datetime.now() returns, in seconds
    handlers               \* the _handle_reaction tasks in flight, oldest first

\* the history tracker's buffers and the sample log behind them
tracker == <<max_depth, history, status_log>>

\* the display fan-out
display == <<status_channel, etodo, rendered>>

\* the program and its database
prog == <<notif_config, alert_db, alert_states, last_timestamp, last_raw_json,
          pc, status, todo, midx, models_now_down, models_now_recovered,
          sent, clearing, tracker, display>>

\* the subscription by reaction of one user in one guild
subscription == <<reacted, has_role, reaction_cooldowns, clock, handlers>>

vars == <<prog, script, pos, current_loop, delivered, subscription>>

(***************************************************************************)
(* Dictionaries: a Python dict is a function on the set of its keys.       *)
(***************************************************************************)
EmptyDict == <<>>

DictSet(d, k, v) == [x \in (DOMAIN d) \cup {k} |-> IF x = k THEN v ELSE d[x]]

(***************************************************************************)
(* ModelAlertState.  is_notified is a Python bool on creation and the      *)
(* SQLite integer 0 / 1 after a restore; True == 1 and False == 0 in       *)
(* Python, so the field is the integer and the code's tests are its truth  *)
(* value.                                                                  *)
(***************************************************************************)
ModelAlertState == [consecutive_red |-> 0, consecutive_green |-> 0, is_notified |-> 0]

Truthy(x) == x # 0

\* OnRed without the test of is_notified
OnRedNoNotifiedTest(state) ==
    LET counted == [state EXCEPT !.consecutive_red = @ + 1, !.consecutive_green = 0]
    IN  IF counted.consecutive_red >= DOWN_THRESHOLD
        THEN [state |-> [counted EXCEPT !.is_notified = 1], event |-> "down"]
        ELSE [state |-> counted, event |-> "none"]

\* OnRed without the reset of consecutive_green
OnRedKeepsGreen(state) ==
    LET counted == [state EXCEPT !.consecutive_red = @ + 1]
    IN  IF counted.consecutive_red >= DOWN_THRESHOLD /\ ~(counted.is_notified # 0)
        THEN [state |-> [counted EXCEPT !.is_notified = 1], event |-> "down"]
        ELSE [state |-> counted, event |-> "none"]

\* OnRed zeroing consecutive_red when it raises the down event
OnRedResetsOnFire(state) ==
    LET counted == [state EXCEPT !.consecutive_red = @ + 1, !.consecutive_green = 0]
    IN  IF counted.consecutive_red >= DOWN_THRESHOLD /\ ~(counted.is_notified # 0)
        THEN [state |-> [counted EXCEPT !.is_notified = 1, !.consecutive_red = 0],
              event |-> "down"]
        ELSE [state |-> counted, event |-> "none"]

\* the branch for model.health == 'red'
OnRed(state) ==
    LET counted == [state EXCEPT !.consecutive_red = @ + 1, !.consecutive_green = 0]
    IN  IF counted.consecutive_red >= DOWN_THRESHOLD /\ ~Truthy(counted.is_notified)
        THEN [state |-> [counted EXCEPT !.is_notified = 1], event |-> "down"]
        ELSE [state |-> counted, event |-> "none"]

\* OnGreen counting healthy samples whether notified or not
OnGreenCountsAlways(state) ==
    LET counted == [state EXCEPT !.consecutive_red = 0, !.consecutive_green = @ + 1]
    IN  IF counted.is_notified # 0 /\ counted.consecutive_green >= RECOVERY_THRESHOLD
        THEN [state |-> [counted EXCEPT !.is_notified = 0, !.consecutive_green = 0],
              event |-> "recovered"]
        ELSE [state |-> counted, event |-> "none"]

\* OnGreen recovering one healthy sample late (> for >=)
OnGreenLateRecovery(state) ==
    LET cleared == [state EXCEPT !.consecutive_red = 0]
    IN  IF cleared.is_notified # 0
        THEN LET counted == [cleared EXCEPT !.consecutive_green = @ + 1]
             IN  IF counted.consecutive_green > RECOVERY_THRESHOLD
                 THEN [state |-> [counted EXCEPT !.is_notified = 0,
                                                 !.consecutive_green = 0],
                       event |-> "recovered"]
                 ELSE [state |-> counted, event |-> "none"]
        ELSE [state |-> cleared, event |-> "none"]

\* OnGreen without the reset of consecutive_red
OnGreenKeepsRed(state) ==
    IF state.is_notified # 0
    THEN LET counted == [state EXCEPT !.consecutive_green = @ + 1]
         IN  IF counted.consecutive_green >= RECOVERY_THRESHOLD
             THEN [state |-> [counted EXCEPT !.is_notified = 0,
                                             !.consecutive_green = 0],
                   event |-> "recovered"]
             ELSE [state |-> counted, event |-> "none"]
    ELSE [state |-> state, event |-> "none"]

\* OnGreen recovering one healthy sample early
OnGreenEarlyRecovery(state) ==
    LET cleared == [state EXCEPT !.consecutive_red = 0]
    IN  IF Truthy(cleared.is_notified)
        THEN LET counted == [cleared EXCEPT !.consecutive_green = @ + 1]
             IN  IF counted.consecutive_green >= RECOVERY_THRESHOLD - 1
                 THEN [state |-> [counted EXCEPT !.is_notified = 0,
                                                 !.consecutive_green = 0],
                       event |-> "recovered"]
                 ELSE [state |-> counted, event |-> "none"]
        ELSE [state |-> cleared, event |-> "none"]

\* OnGreen that leaves consecutive_green at the threshold when it recovers
OnGreenKeepsCount(state) ==
    LET cleared == [state EXCEPT !.consecutive_red = 0]
    IN  IF Truthy(cleared.is_notified)
        THEN LET counted == [cleared EXCEPT !.consecutive_green = @ + 1]
             IN  IF counted.consecutive_green >= RECOVERY_THRESHOLD
                 THEN [state |-> [counted EXCEPT !.is_notified = 0],
                       event |-> "recovered"]
                 ELSE [state |-> counted, event |-> "none"]
        ELSE [state |-> cleared, event |-> "none"]

\* the branch for model.health == 'green'
OnGreen(state) ==
    LET cleared == [state EXCEPT !.consecutive_red = 0]
    IN  IF Truthy(cleared.is_notified)
        THEN LET counted == [cleared EXCEPT !.consecutive_green = @ + 1]
             IN  IF counted.consecutive_green >= RECOVERY_THRESHOLD
                 THEN [state |-> [counted EXCEPT !.is_notified = 0,
                                                 !.consecutive_green = 0],
                       event |-> "recovered"]
                 ELSE [state |-> counted, event |-> "none"]
        ELSE [state |-> cleared, event |-> "none"]

\* AlertStep with only 'yellow' and 'orange' neutral: any other label that is
\* not 'red' counts as healthy
AlertStepElseGreen(state, health) ==
    IF health = "red" THEN OnRed(state)
    ELSE IF health \in {"yellow", "orange"} THEN [state |-> state, event |-> "none"]
    ELSE OnGreen(state)

\* the if / elif / else on model.health
AlertStep(state, health) ==
    IF health = "red" THEN OnRed(state)
    ELSE IF health = "green" THEN OnGreen(state)
    ELSE [state |-> state, event |-> "none"]

\* a NULL column of alert_state, None in the ModelAlertState built from it
NULL == -1

\* the TypeError of None + 1: consecutive_red += 1 on a Down sample, or
\* consecutive_green += 1 on a Healthy sample of a notified key
RaisesTypeError(state, health) ==
    \/ health = "red" /\ state.consecutive_red = NULL
    \/ health = "green" /\ Truthy(state.is_notified) /\ state.consecutive_green = NULL

\* what the branch had assigned when the TypeError was raised
Interrupted(state, health) ==
    IF health = "green" THEN [state EXCEPT !.consecutive_red = 0] ELSE state

\* the row update_alert_state writes for a state
ToRow(state) ==
    [consecutive_red |-> state.consecutive_red,
     consecutive_green |-> state.consecutive_green,
     is_notified |-> state.is_notified]

\* FromRow restoring is_notified only
FromRowFlagOnly(row) ==
    [consecutive_red |-> 0, consecutive_green |-> 0, is_notified |-> row.is_notified]

\* FromRow restoring the counters only: every restored key is inactive
FromRowCountersOnly(row) ==
    [consecutive_red |-> row.consecutive_red,
     consecutive_green |-> row.consecutive_green,
     is_notified |-> 0]

\* the ModelAlertState _load_alert_states_from_db builds from a row
FromRow(row) ==
    [consecutive_red |-> row.consecutive_red,
     consecutive_green |-> row.consecutive_green,
     is_notified |-> row.is_notified]

\* update_alert_state as INSERT OR IGNORE: an existing row is kept
UpdateAlertStateKeepsRow(rows, model_name, state) ==
    IF model_name \in DOMAIN rows THEN rows ELSE DictSet(rows, model_name, ToRow(state))

\* update_alert_state: the rows of a guild after the upsert of one state
UpdateAlertState(rows, model_name, state) == DictSet(rows, model_name, ToRow(state))

\* the dict _load_alert_states_from_db builds for one guild
LoadStates(rows) == [m \in DOMAIN rows |-> FromRow(rows[m])]

(***************************************************************************)
(* StatusHistory: a deque(maxlen = max_depth) per model, and the rows of   *)
(* status_log that get_recent_model_health can return.                     *)
(***************************************************************************)
\* DequeAppend that never evicts
DequeAppendNoEvict(buffer, health, depth) == Append(buffer, health)

\* deque.append under maxlen = depth
DequeAppend(buffer, health, depth) ==
    IF depth = 0 THEN <<>>
    ELSE IF Len(buffer) >= depth THEN Append(Tail(buffer), health)
    ELSE Append(buffer, health)

\* the loop of add_snapshot over status.models[i..]
RECURSIVE AddModels(_, _, _, _)
AddModels(hist, models, i, depth) ==
    IF i > Len(models) THEN hist
    ELSE LET name == models[i].name
             buffer == IF name \in DOMAIN hist THEN hist[name] ELSE <<>>
         IN  AddModels(DictSet(hist, name, DequeAppend(buffer, models[i].health, depth)),
                       models, i + 1, depth)

\* the loop of load_from_list over health_list[i..]
RECURSIVE AppendAll(_, _, _, _)
AppendAll(buffer, health_list, i, depth) ==
    IF i > Len(health_list) THEN buffer
    ELSE AppendAll(DequeAppend(buffer, health_list[i], depth), health_list, i + 1, depth)

\* LoadFromList that keeps the newest value of the list only
LoadFromListNewest(hist, model_name, health_list, depth) ==
    LET buffer == IF model_name \in DOMAIN hist THEN hist[model_name] ELSE <<>>
    IN  DictSet(hist, model_name,
                AppendAll(buffer, health_list, Len(health_list), depth))

LoadFromList(hist, model_name, health_list, depth) ==
    LET buffer == IF model_name \in DOMAIN hist THEN hist[model_name] ELSE <<>>
    IN  DictSet(hist, model_name, AppendAll(buffer, health_list, 1, depth))

\* get_recent_model_health: the newest limit rows, oldest first
GetRecentModelHealth(rows, limit) ==
    IF Len(rows) <= limit THEN rows
    ELSE SubSeq(rows, Len(rows) - limit + 1, Len(rows))

\* _load_history_from_db over MODEL_ORDER[i..]
RECURSIVE LoadHistory(_, _, _, _)
LoadHistory(hist, log, i, depth) ==
    IF i > Len(MODEL_ORDER) THEN hist
    ELSE LET health_list == GetRecentModelHealth(log[MODEL_ORDER[i]], depth)
         IN  LoadHistory(IF health_list # <<>>
                         THEN LoadFromList(hist, MODEL_ORDER[i], health_list, depth)
                         ELSE hist,
                         log, i + 1, depth)

\* log_status for the first written models of a snapshot
RECURSIVE LogRows(_, _, _, _)
LogRows(log, models, written, depth) ==
    IF written = 0 THEN log
    ELSE LET before == LogRows(log, models, written - 1, depth)
             name == models[written].name
         IN  [before EXCEPT ![name] =
                 GetRecentModelHealth(Append(@, models[written].health), depth)]

(***************************************************************************)
(* Payloads and the parser.                                                *)
(***************************************************************************)
\* the newest record of a payload that reports the entities in names with
\* health labels from labels
Records(names, labels) == [updated : 1..MaxTs, inference : [names -> labels]]

\* response bodies: the ordered history array, newest first, empty or not
Bodies(names, labels) ==
    {[history |-> <<>>]} \cup {[history |-> <<r>>] : r \in Records(names, labels)}

NoStatus == [timestamp |-> 0, models |-> <<>>]

\* a value of the inference map that is no JSON object (null, a string, a number)
NotADict == "null"

\* isinstance(model_data, dict); a mapping is written as the health label it
\* yields, 'unknown' when it has none
IsDict(model_data) == model_data # NotADict

\* ParseModels that goes through MODEL_ORDER from its end
RECURSIVE ParseModelsDescending(_, _)
ParseModelsDescending(inference, i) ==
    IF i > Len(MODEL_ORDER) THEN <<>>
    ELSE IF MODEL_ORDER[i] \in DOMAIN inference /\ IsDict(inference[MODEL_ORDER[i]])
         THEN ParseModelsDescending(inference, i + 1)
                  \o <<[name |-> MODEL_ORDER[i], health |-> inference[MODEL_ORDER[i]]]>>
         ELSE ParseModelsDescending(inference, i + 1)

RECURSIVE ParseModels(_, _)
ParseModels(inference, i) ==
    IF i > Len(MODEL_ORDER) THEN <<>>
    ELSE IF MODEL_ORDER[i] \in DOMAIN inference /\ IsDict(inference[MODEL_ORDER[i]])
         THEN <<[name |-> MODEL_ORDER[i], health |-> inference[MODEL_ORDER[i]]]>>
                  \o ParseModels(inference, i + 1)
         ELSE ParseModels(inference, i + 1)

\* _parse_status; NoStatus stands for None
ParseStatus(data) ==
    IF data.history = <<>> THEN NoStatus
    ELSE LET latest == data.history[1]
         IN  [timestamp |-> latest.updated,
              models |-> ParseModels(latest.inference, 1)]

\* IsStale with < for <=
IsStaleStrict(timestamp) == last_timestamp # 0 /\ timestamp < last_timestamp

\* IsStale that refuses nothing
IsStaleNever(timestamp) == FALSE

\* IsStale with the comparison turned round
IsStaleReversed(timestamp) == last_timestamp # 0 /\ timestamp >= last_timestamp

\* the timestamp test of StatusHistory.add_snapshot
IsStale(timestamp) == last_timestamp # 0 /\ timestamp <= last_timestamp

(***************************************************************************)
(* Initial state: a fresh database, a process that has just been started.  *)
(***************************************************************************)
NoConfig == [notification_channel_id |-> 0, notification_role_id |-> 0]

\* the alert sink has accepted nothing
NothingDelivered == [g \in Guilds |-> [m \in ModelNames |-> "none"]]

\* nobody has reacted to the status message
NoReactions ==
    /\ reacted = FALSE
    /\ has_role = FALSE
    /\ reaction_cooldowns = 0
    /\ clock = 1
    /\ handlers = <<>>

\* nothing restored, nothing displayed, an empty sample log
NoHistory ==
    /\ history = EmptyDict
    /\ status_log = [m \in ModelNames |-> <<>>]
    /\ status_channel = [g \in Guilds |-> 0]
    /\ etodo = <<>>
    /\ rendered = {}

\* no guild has set anything up, the process has just been started
Booting ==
    /\ notif_config = [g \in Guilds |-> NoConfig]
    /\ alert_db = [g \in Guilds |-> EmptyDict]
    /\ alert_states = [g \in Guilds |-> EmptyDict]
    /\ last_timestamp = 0
    /\ last_raw_json = <<>>
    /\ pc = "boot"
    /\ status = NoStatus
    /\ todo = <<>>
    /\ midx = 1
    /\ models_now_down = <<>>
    /\ models_now_recovered = <<>>
    /\ sent = <<>>
    /\ clearing = {}
    /\ script = <<>>
    /\ pos = 0
    /\ current_loop = 0
    /\ delivered = NothingDelivered
    /\ NoReactions

\* history_depth: 0 in the configuration: the embeds show no history
Init ==
    /\ max_depth = 0
    /\ NoHistory
    /\ Booting

(***************************************************************************)
(* The poll cycle, StatusCog.status_loop.                                  *)
(***************************************************************************)
\* the cycle's locals once the cycle has ended (or died with an exception)
CycleOver ==
    /\ pc' = "idle"
    /\ status' = NoStatus
    /\ todo' = <<>>
    /\ midx' = 1
    /\ models_now_down' = <<>>
    /\ models_now_recovered' = <<>>
    /\ etodo' = <<>>

UnchangedCycle ==
    UNCHANGED <<status, todo, midx, models_now_down, models_now_recovered, etodo>>

\* the for loop of _process_notifications moves to the configs in rest
VisitGuilds(rest) ==
    /\ todo' = rest
    /\ midx' = 1
    /\ models_now_down' = <<>>
    /\ models_now_recovered' = <<>>
    /\ IF rest = <<>>
       THEN pc' = "idle" /\ status' = NoStatus
       ELSE /\ pc' = IF Len(status.models) = 0 THEN "dispatch" ELSE "alert"
            /\ UNCHANGED status
    /\ UNCHANGED etodo

\* a timer that starts an iteration while the previous one is still running
TimerFiresReentrant == pc # "boot"

\* tasks.loop starts an iteration of status_loop: the previous one has returned
\* and before_status_loop has run
TimerFires == pc = "idle"

\* FetchFailed dropping the cached body
FetchFailedForgets ==
    /\ TimerFires
    /\ last_raw_json' = <<>>
    /\ UNCHANGED <<notif_config, alert_db, alert_states, last_timestamp, pc, status,
                   todo, midx, models_now_down, models_now_recovered, sent, clearing,
                   tracker, display>>

\* fetch_if_changed could not complete: (None, False), the cycle returns
FetchFailed ==
    /\ TimerFires
    /\ UNCHANGED prog

\* _last_status: the parse of the cached body
LastStatus == IF last_raw_json = <<>> THEN NoStatus ELSE ParseStatus(last_raw_json[1])

\* fetch_if_changed without the comparison of the raw bodies
FetchIfChangedNoCompare(body) ==
    LET parsed == ParseStatus(body)
    IN  [status |-> parsed, changed |-> parsed # NoStatus, parsed |-> TRUE]

\* what fetch_if_changed returns for a 200 response with this body, and whether
\* it called _parse_status
FetchIfChanged(body) ==
    IF last_raw_json = <<body>>
    THEN [status |-> LastStatus, changed |-> FALSE, parsed |-> FALSE]
    ELSE LET parsed == ParseStatus(body)
         IN  [status |-> parsed, changed |-> parsed # NoStatus, parsed |-> TRUE]

\* PollFetch without the return on a refused snapshot: the cycle goes on with it
PollFetchKeepsStale(body) ==
    /\ TimerFires
    /\ LET fetched == FetchIfChanged(body)
           parsed == fetched.status
       IN  IF parsed = NoStatus \/ ~fetched.changed
           THEN UNCHANGED prog
           ELSE      /\ last_raw_json' = <<body>>
                     /\ IF IsStale(parsed.timestamp)
                        THEN UNCHANGED <<last_timestamp, history>>
                        ELSE /\ last_timestamp' = parsed.timestamp
                             /\ history' = AddModels(history, parsed.models, 1, max_depth)
                     /\ status' = parsed
                     /\ pc' = "log"
                     /\ sent' = <<>>
                     /\ rendered' = {}
                     /\ UNCHANGED <<notif_config, alert_db, alert_states, todo, midx,
                                    models_now_down, models_now_recovered, clearing,
                                    max_depth, status_log, status_channel, etodo>>

\* PollFetch that caches a body only when the tracker accepts its snapshot
PollFetchCachesAccepted(body) ==
    /\ TimerFires
    /\ LET fetched == FetchIfChanged(body)
           parsed == fetched.status
       IN  IF parsed = NoStatus \/ ~fetched.changed \/ IsStale(parsed.timestamp)
           THEN UNCHANGED prog
           ELSE      /\ last_raw_json' = <<body>>
                     /\ last_timestamp' = parsed.timestamp
                     /\ history' = AddModels(history, parsed.models, 1, max_depth)
                     /\ status' = parsed
                     /\ pc' = "log"
                     /\ sent' = <<>>
                     /\ rendered' = {}
                     /\ UNCHANGED <<notif_config, alert_db, alert_states, todo, midx,
                                    models_now_down, models_now_recovered, clearing,
                                    max_depth, status_log, status_channel, etodo>>

\* fetch_if_changed got body, then add_snapshot up to the first log_status
PollFetch(body) ==
    /\ TimerFires
    /\ LET fetched == FetchIfChanged(body)
           parsed == fetched.status
       IN  IF parsed = NoStatus \/ ~fetched.changed
           THEN UNCHANGED prog
           ELSE      /\ last_raw_json' = <<body>>
                     /\ IF IsStale(parsed.timestamp)
                        THEN UNCHANGED <<last_timestamp, pc, status, sent, history,
                                         rendered>>
                        ELSE /\ last_timestamp' = parsed.timestamp
                             /\ history' = AddModels(history, parsed.models, 1, max_depth)
                             /\ status' = parsed
                             /\ pc' = "log"
                             /\ sent' = <<>>
                             /\ rendered' = {}
                     /\ UNCHANGED <<notif_config, alert_db, alert_states, todo, midx,
                                    models_now_down, models_now_recovered, clearing,
                                    max_depth, status_log, status_channel, etodo>>

\* LogStatus outside the try of status_loop: the exception ends the task
LogStatusStops(written) ==
    /\ pc = "log"
    /\ written <= Len(status.models)
    /\ status_log' = LogRows(status_log, status.models, written, max_depth)
    /\ IF written = Len(status.models)
       THEN pc' = "embeds" /\ UnchangedCycle
       ELSE /\ pc' = "stopped"
            /\ status' = NoStatus
            /\ UNCHANGED <<todo, midx, models_now_down, models_now_recovered, etodo>>
    /\ UNCHANGED <<notif_config, alert_db, alert_states, last_timestamp,
                   last_raw_json, sent, clearing, max_depth, history,
                   status_channel, rendered>>

\* the log_status calls: written of them return, the next one (if any) raises
LogStatus(written) ==
    /\ pc = "log"
    /\ written <= Len(status.models)
    /\ status_log' = LogRows(status_log, status.models, written, max_depth)
    /\ IF written = Len(status.models) THEN pc' = "embeds" /\ UnchangedCycle ELSE CycleOver
    /\ UNCHANGED <<notif_config, alert_db, alert_states, last_timestamp,
                   last_raw_json, sent, clearing, max_depth, history,
                   status_channel, rendered>>

\* a config row get_all_status_channels returns
HasStatusChannel(g) == status_channel[g] # 0

\* get_all_status_channels at the head of _update_all_embeds; ok = FALSE: it raises
UpdateAllEmbeds(ok) ==
    /\ pc = "embeds"
    /\ IF ok
       THEN /\ etodo' = SelectSeq(GuildSeq, HasStatusChannel)
            /\ pc' = IF etodo' = <<>> THEN "configs" ELSE "render"
            /\ UNCHANGED <<status, todo, midx, models_now_down, models_now_recovered>>
       ELSE CycleOver
    /\ UNCHANGED <<notif_config, alert_db, alert_states, last_timestamp,
                   last_raw_json, sent, clearing, tracker, status_channel, rendered>>

\* UpdateGuildEmbed without the try of the loop: a failure ends the cycle
UpdateGuildEmbedAborts(ok) ==
    /\ pc = "render"
    /\ IF ok
       THEN /\ rendered' = rendered \cup {Head(etodo)}
            /\ etodo' = Tail(etodo)
            /\ pc' = IF Tail(etodo) = <<>> THEN "configs" ELSE "render"
            /\ UNCHANGED <<status, todo, midx, models_now_down, models_now_recovered>>
       ELSE CycleOver /\ UNCHANGED rendered
    /\ UNCHANGED <<notif_config, alert_db, alert_states, last_timestamp,
                   last_raw_json, sent, clearing, tracker, status_channel>>

\* _update_guild_embed for the next config, inside the try of the loop;
\* ok = FALSE: no channel, or the edit and the send fail, or a database call raises
UpdateGuildEmbed(ok) ==
    /\ pc = "render"
    /\ rendered' = IF ok THEN rendered \cup {Head(etodo)} ELSE rendered
    /\ etodo' = Tail(etodo)
    /\ pc' = IF Tail(etodo) = <<>> THEN "configs" ELSE "render"
    /\ UNCHANGED <<notif_config, alert_db, alert_states, last_timestamp,
                   last_raw_json, sent, clearing, tracker, status_channel,
                   status, todo, midx, models_now_down, models_now_recovered>>

\* a config row get_all_notification_configs returns and the loop does not skip
Notifiable(g) ==
    /\ notif_config[g].notification_channel_id # 0
    /\ notif_config[g].notification_role_id # 0

\* get_all_notification_configs at the head of _process_notifications
LoadNotificationConfigs(ok) ==
    /\ pc = "configs"
    /\ IF ok
       THEN VisitGuilds(SelectSeq(GuildSeq, Notifiable))
       ELSE CycleOver
    /\ UNCHANGED <<notif_config, alert_db, alert_states, last_timestamp,
                   last_raw_json, sent, clearing, tracker, status_channel, rendered>>

\* one pass of the per-model loop of _process_guild_notifications:
\* the state machine, then update_alert_state (ok = FALSE: it raises); an
\* exception of either ends the guild's processing
ProcessModel(ok) ==
    /\ pc = "alert"
    /\ LET g == Head(todo)
           model == status.models[midx]
           state == IF model.name \in DOMAIN alert_states[g]
                    THEN alert_states[g][model.name]
                    ELSE ModelAlertState
           raises == RaisesTypeError(state, model.health)
           step == IF raises
                   THEN [state |-> Interrupted(state, model.health), event |-> "none"]
                   ELSE AlertStep(state, model.health)
       IN  /\ step.state.consecutive_red <= MaxRed
           /\ alert_states' = [alert_states EXCEPT
                                  ![g] = DictSet(@, model.name, step.state)]
           /\ IF ok /\ ~raises
              THEN /\ alert_db' = [alert_db EXCEPT
                                      ![g] = UpdateAlertState(@, model.name, step.state)]
                   /\ models_now_down' =
                          IF step.event = "down"
                          THEN Append(models_now_down, model.name)
                          ELSE models_now_down
                   /\ models_now_recovered' =
                          IF step.event = "recovered"
                          THEN Append(models_now_recovered, model.name)
                          ELSE models_now_recovered
                   /\ midx' = midx + 1
                   /\ pc' = IF midx = Len(status.models) THEN "dispatch" ELSE "alert"
                   /\ UNCHANGED <<status, todo, etodo>>
              ELSE /\ UNCHANGED alert_db
                   /\ VisitGuilds(Tail(todo))
    /\ UNCHANGED <<notif_config, last_timestamp, last_raw_json, sent, clearing,
                   tracker, status_channel, rendered>>

\* a notification per entity: only the first name is listed
NotificationOfFirst(g, kind, names) ==
    [guild |-> g, kind |-> kind, models |-> <<names[1]>>]

\* the embed sent for the names collected in one list
Notification(g, kind, names) == [guild |-> g, kind |-> kind, models |-> names]

\* Dispatch rolling the AlertStates back when the hand-off fails
DispatchRollsBack(channel, ok) ==
    /\ pc = "dispatch"
    /\ LET g == Head(todo)
           failed == ~channel \/ ~ok
           Undelivered(states, names, flag) ==
               [m \in DOMAIN states |->
                   IF \E i \in 1..Len(names) : names[i] = m
                   THEN [states[m] EXCEPT !.is_notified = flag]
                   ELSE states[m]]
           undone == Undelivered(Undelivered(alert_states[g], models_now_down, 0),
                                 models_now_recovered, 1)
       IN  /\ alert_states' = IF failed THEN [alert_states EXCEPT ![g] = undone]
                               ELSE alert_states
           /\ alert_db' = IF failed
                          THEN [alert_db EXCEPT ![g] = [m \in DOMAIN undone |-> ToRow(undone[m])]]
                          ELSE alert_db
           /\ IF ~channel
              THEN UNCHANGED sent /\ VisitGuilds(Tail(todo))
              ELSE IF models_now_down # <<>>
              THEN /\ sent' = IF ok
                              THEN Append(sent, Notification(g, "down", models_now_down))
                              ELSE sent
                   /\ IF models_now_recovered # <<>>
                      THEN pc' = "dispatch_recovered" /\ UnchangedCycle
                      ELSE VisitGuilds(Tail(todo))
              ELSE IF models_now_recovered # <<>>
              THEN /\ sent' = IF ok
                              THEN Append(sent, Notification(g, "recovered",
                                                             models_now_recovered))
                              ELSE sent
                   /\ VisitGuilds(Tail(todo))
              ELSE UNCHANGED sent /\ VisitGuilds(Tail(todo))
    /\ UNCHANGED <<notif_config, last_timestamp, last_raw_json, clearing, tracker,
                   status_channel, rendered>>

\* the tail of _process_guild_notifications up to its first send:
\* channel = FALSE: get_channel returns None; ok = FALSE: the send raises
Dispatch(channel, ok) ==
    /\ pc = "dispatch"
    /\ LET g == Head(todo)
       IN  IF ~channel
           THEN UNCHANGED sent /\ VisitGuilds(Tail(todo))
           ELSE IF models_now_down # <<>>
           THEN /\ sent' = IF ok
                           THEN Append(sent, Notification(g, "down", models_now_down))
                           ELSE sent
                /\ IF models_now_recovered # <<>>
                   THEN pc' = "dispatch_recovered" /\ UnchangedCycle
                   ELSE VisitGuilds(Tail(todo))
           ELSE IF models_now_recovered # <<>>
           THEN /\ sent' = IF ok
                           THEN Append(sent, Notification(g, "recovered",
                                                          models_now_recovered))
                           ELSE sent
                /\ VisitGuilds(Tail(todo))
           ELSE UNCHANGED sent /\ VisitGuilds(Tail(todo))
    /\ UNCHANGED <<notif_config, alert_db, alert_states, last_timestamp,
                   last_raw_json, clearing, tracker, status_channel, rendered>>

\* the recovery send that follows a down send
DispatchRecovered(ok) ==
    /\ pc = "dispatch_recovered"
    /\ sent' = IF ok
               THEN Append(sent, Notification(Head(todo), "recovered",
                                              models_now_recovered))
               ELSE sent
    /\ VisitGuilds(Tail(todo))
    /\ UNCHANGED <<notif_config, alert_db, alert_states, last_timestamp,
                   last_raw_json, clearing, tracker, status_channel, rendered>>

(***************************************************************************)
(* Process start and stop.                                                 *)
(***************************************************************************)
\* the process dies and is started again: everything in memory is lost
Crash ==
    /\ pc' = "boot"
    /\ alert_states' = [g \in Guilds |-> EmptyDict]
    /\ last_timestamp' = 0
    /\ last_raw_json' = <<>>
    /\ status' = NoStatus
    /\ todo' = <<>>
    /\ midx' = 1
    /\ models_now_down' = <<>>
    /\ models_now_recovered' = <<>>
    /\ sent' = <<>>
    /\ clearing' = {}
    /\ history' = EmptyDict
    /\ etodo' = <<>>
    /\ rendered' = {}
    /\ UNCHANGED <<notif_config, alert_db, max_depth, status_log, status_channel>>

\* BeforeLoop without _load_history_from_db
BeforeLoopAlertsOnly ==
    /\ pc = "boot"
    /\ alert_states' =
           [g \in Guilds |->
               IF notif_config[g].notification_channel_id # 0
               THEN LoadStates(alert_db[g])
               ELSE alert_states[g]]
    /\ pc' = "idle"
    /\ UNCHANGED <<notif_config, alert_db, last_timestamp, last_raw_json, status,
                   todo, midx, models_now_down, models_now_recovered, sent, clearing,
                   tracker, display>>

\* before_status_loop: _load_history_from_db, then _load_alert_states_from_db
BeforeLoop ==
    /\ pc = "boot"
    /\ history' = LoadHistory(history, status_log, 1, max_depth)
    /\ alert_states' =
           [g \in Guilds |->
               IF notif_config[g].notification_channel_id # 0
               THEN LoadStates(alert_db[g])
               ELSE alert_states[g]]
    /\ pc' = "idle"
    /\ UNCHANGED <<notif_config, alert_db, last_timestamp, last_raw_json, status,
                   todo, midx, models_now_down, models_now_recovered, sent, clearing,
                   max_depth, status_log, display>>

(***************************************************************************)
(* SetupCog.setup_notifications.                                           *)
(***************************************************************************)
\* channel and role given: set_notification_config
SetNotifications(g) ==
    /\ notif_config' = [notif_config EXCEPT
                           ![g] = [notification_channel_id |-> 1,
                                   notification_role_id |-> 1]]
    /\ UNCHANGED <<alert_db, alert_states, last_timestamp, last_raw_json, pc, status,
                   todo, midx, models_now_down, models_now_recovered, sent, clearing,
                   tracker, display>>

\* no channel given: clear_notification_config
ClearNotificationConfig(g) ==
    /\ g \notin clearing
    /\ notif_config' = [notif_config EXCEPT ![g] = NoConfig]
    /\ clearing' = clearing \cup {g}
    /\ UNCHANGED <<alert_db, alert_states, last_timestamp, last_raw_json, pc, status,
                   todo, midx, models_now_down, models_now_recovered, sent,
                   tracker, display>>

\* ... then clear_alert_states
ClearAlertStates(g) ==
    /\ g \in clearing
    /\ alert_db' = [alert_db EXCEPT ![g] = EmptyDict]
    /\ clearing' = clearing \ {g}
    /\ UNCHANGED <<notif_config, alert_states, last_timestamp, last_raw_json, pc,
                   status, todo, midx, models_now_down, models_now_recovered, sent,
                   tracker, display>>

(***************************************************************************)
(* SetupCog.setup_status.                                                  *)
(***************************************************************************)
\* initialize_status_channel: fetch_status returned the parse of body (an empty
\* history stands for a failed fetch), add_snapshot, then the send and
\* set_status_channel; ok = FALSE: the send raises
SetupStatus(g, body, ok) ==
    /\ LET fetched == ParseStatus(body)
       IN  IF fetched = NoStatus \/ IsStale(fetched.timestamp)
           THEN UNCHANGED <<last_timestamp, history>>
           ELSE /\ last_timestamp' = fetched.timestamp
                /\ history' = AddModels(history, fetched.models, 1, max_depth)
    /\ status_channel' = IF ok THEN [status_channel EXCEPT ![g] = 1] ELSE status_channel
    /\ UNCHANGED <<notif_config, alert_db, alert_states, last_raw_json, pc, status,
                   todo, midx, models_now_down, models_now_recovered, sent, clearing,
                   max_depth, status_log, etodo, rendered>>

(***************************************************************************)
(* The system with the setup commands run in the guilds of scopes and an   *)
(* upstream that answers with the bodies of bodies.                        *)
(***************************************************************************)
Unscripted == UNCHANGED <<script, pos, current_loop, delivered, subscription>>

\* the poll task, up to the single send of a guild's dispatch
PollTask(bodies) ==
    \/ FetchFailed /\ Unscripted
    \/ \E body \in bodies : PollFetch(body) /\ Unscripted
    \/ \E written \in 0..Len(MODEL_ORDER) : LogStatus(written) /\ Unscripted
    \/ \E ok \in BOOLEAN : UpdateAllEmbeds(ok) /\ Unscripted
    \/ \E ok \in BOOLEAN : LoadNotificationConfigs(ok) /\ Unscripted
    \/ \E ok \in BOOLEAN : ProcessModel(ok) /\ Unscripted
    \/ \E channel \in BOOLEAN, ok \in BOOLEAN : Dispatch(channel, ok) /\ Unscripted

\* process restarts and the setup commands
Environment(scopes) ==
    \/ Crash /\ Unscripted
    \/ BeforeLoop /\ Unscripted
    \/ \E g \in scopes : SetNotifications(g) /\ Unscripted
    \/ \E g \in scopes : ClearNotificationConfig(g) /\ Unscripted
    \/ \E g \in scopes : ClearAlertStates(g) /\ Unscripted

\* one guild is set up; the upstream reports both entities
Next ==
    \/ PollTask(Bodies(ModelNames, {"green", "yellow", "red"}))
    \/ \E ok \in BOOLEAN : DispatchRecovered(ok) /\ Unscripted
    \/ Environment({1})

Spec == Init /\ [][Next]_vars

(***************************************************************************)
(* A scripted upstream: every fetch returns the next label of script for   *)
(* one entity, under a new timestamp, to a process that is up with one     *)
(* guild set up; the cycle's database reads and writes of the sample log   *)
(* and the configs succeed.                                                *)
(***************************************************************************)
\* length of the scripts
ScriptLen == 7

\* length of the scripts that use every label
NeutralLen == 4

ScriptBody(i) ==
    [history |-> <<[updated |-> i,
                    inference |-> [m \in {MODEL_ORDER[1]} |-> script[i]]]>>]

InitScripted(labels, length) ==
    /\ max_depth = 0
    /\ NoHistory
    /\ notif_config = [g \in Guilds |->
                          IF g = 1
                          THEN [notification_channel_id |-> 1, notification_role_id |-> 1]
                          ELSE NoConfig]
    /\ alert_db = [g \in Guilds |-> EmptyDict]
    /\ alert_states = [g \in Guilds |-> EmptyDict]
    /\ last_timestamp = 0
    /\ last_raw_json = <<>>
    /\ pc = "idle"
    /\ status = NoStatus
    /\ todo = <<>>
    /\ midx = 1
    /\ models_now_down = <<>>
    /\ models_now_recovered = <<>>
    /\ sent = <<>>
    /\ clearing = {}
    /\ script \in [1..length -> labels]
    /\ pos = 0
    /\ current_loop = 0
    /\ delivered = NothingDelivered
    /\ NoReactions

\* scripts of healthy, degraded and down samples
InitScript == InitScripted({"green", "yellow", "red"}, ScriptLen)

NextScript ==
    \/ /\ pos < Len(script)
       /\ PollFetch(ScriptBody(pos + 1))
       /\ pos' = pos + 1
       /\ UNCHANGED <<script, current_loop, delivered, subscription>>
    \/ LogStatus(Len(status.models)) /\ Unscripted
    \/ UpdateAllEmbeds(TRUE) /\ Unscripted
    \/ LoadNotificationConfigs(TRUE) /\ Unscripted
    \/ \E ok \in BOOLEAN : ProcessModel(ok) /\ Unscripted
    \/ \E channel \in BOOLEAN, ok \in BOOLEAN : Dispatch(channel, ok) /\ Unscripted

SpecScript == InitScript /\ [][NextScript]_vars

\* scripts of samples with any label
InitNeutral == InitScripted(HealthLabels, NeutralLen)

SpecNeutral == InitNeutral /\ [][NextScript]_vars

(***************************************************************************)
(* The history tracker: a positive history_depth, restarts, and the status *)
(* and notification setup commands in one guild.  Every call of the cycle  *)
(* may fail.                                                               *)
(***************************************************************************)
\* largest history_depth
MaxDepth == 2

\* the upstream reports the first entity, healthy or down
HistoryBodies == Bodies({MODEL_ORDER[1]}, {"green", "red"})

InitHistory ==
    /\ max_depth \in 1..MaxDepth
    /\ NoHistory
    /\ Booting

NextHistory ==
    \/ FetchFailed /\ Unscripted
    \/ \E body \in HistoryBodies : PollFetch(body) /\ Unscripted
    \/ \E written \in 0..Len(MODEL_ORDER) : LogStatus(written) /\ Unscripted
    \/ \E ok \in BOOLEAN : UpdateAllEmbeds(ok) /\ Unscripted
    \/ \E ok \in BOOLEAN : UpdateGuildEmbed(ok) /\ Unscripted
    \/ \E ok \in BOOLEAN : LoadNotificationConfigs(ok) /\ Unscripted
    \/ \E ok \in BOOLEAN : ProcessModel(ok) /\ Unscripted
    \/ \E channel \in BOOLEAN, ok \in BOOLEAN : Dispatch(channel, ok) /\ Unscripted
    \/ Crash /\ Unscripted
    \/ BeforeLoop /\ Unscripted
    \/ SetNotifications(GuildSeq[1]) /\ Unscripted
    \/ \E body \in HistoryBodies, ok \in BOOLEAN :
           SetupStatus(GuildSeq[1], body, ok) /\ Unscripted

SpecHistory == InitHistory /\ [][NextHistory]_vars

(***************************************************************************)
(* A replayed upstream: every fetch gets the next response of script, a    *)
(* status code (0: the request raised) and a body.  One guild has a status *)
(* channel and alerts set up; the process is up.                           *)
(***************************************************************************)
\* number of responses replayed
ReplayLen == 3

FailureCodes == {0, 500}

\* the replayed upstream reports the first entity alone or both
ReplayBodies ==
    Bodies({MODEL_ORDER[1]}, {"green", "red"}) \cup Bodies(ModelNames, {"red"})

Responses ==
    [code : FailureCodes, body : {[history |-> <<>>]}]
        \cup [code : {200}, body : ReplayBodies]

InitReplay ==
    /\ max_depth \in 1..MaxDepth
    /\ history = EmptyDict
    /\ status_log = [m \in ModelNames |-> <<>>]
    /\ status_channel = [g \in Guilds |-> IF g = GuildSeq[1] THEN 1 ELSE 0]
    /\ etodo = <<>>
    /\ rendered = {}
    /\ notif_config = [g \in Guilds |->
                          IF g = GuildSeq[1]
                          THEN [notification_channel_id |-> 1, notification_role_id |-> 1]
                          ELSE NoConfig]
    /\ alert_db = [g \in Guilds |-> EmptyDict]
    /\ alert_states = [g \in Guilds |-> EmptyDict]
    /\ last_timestamp = 0
    /\ last_raw_json = <<>>
    /\ pc = "idle"
    /\ status = NoStatus
    /\ todo = <<>>
    /\ midx = 1
    /\ models_now_down = <<>>
    /\ models_now_recovered = <<>>
    /\ sent = <<>>
    /\ clearing = {}
    /\ script \in [1..ReplayLen -> Responses]
    /\ pos = 0
    /\ current_loop = 0
    /\ delivered = NothingDelivered
    /\ NoReactions

\* the first step of a cycle, on the next response
ReplayFetch ==
    /\ pos < Len(script)
    /\ IF script[pos + 1].code = 200
       THEN PollFetch(script[pos + 1].body)
       ELSE FetchFailed
    /\ pos' = pos + 1
    /\ UNCHANGED <<script, current_loop, delivered, subscription>>

NextReplay ==
    \/ ReplayFetch
    \/ LogStatus(Len(status.models)) /\ Unscripted
    \/ UpdateAllEmbeds(TRUE) /\ Unscripted
    \/ \E ok \in BOOLEAN : UpdateGuildEmbed(ok) /\ Unscripted
    \/ LoadNotificationConfigs(TRUE) /\ Unscripted
    \/ \E ok \in BOOLEAN : ProcessModel(ok) /\ Unscripted
    \/ \E channel \in BOOLEAN, ok \in BOOLEAN : Dispatch(channel, ok) /\ Unscripted

SpecReplay == InitReplay /\ [][NextReplay]_vars

(***************************************************************************)
(* The fan-out: both guilds have a status channel and alerts set up, the   *)
(* scripted upstream reports one entity, and every call made for the first *)
(* guild may fail while the calls for the second succeed.                  *)
(***************************************************************************)
\* length of the fan-out scripts
FanLen == 5

InitFanout ==
    /\ max_depth = 1
    /\ history = EmptyDict
    /\ status_log = [m \in ModelNames |-> <<>>]
    /\ status_channel = [g \in Guilds |-> 1]
    /\ etodo = <<>>
    /\ rendered = {}
    /\ notif_config = [g \in Guilds |->
                          [notification_channel_id |-> 1, notification_role_id |-> 1]]
    /\ alert_db = [g \in Guilds |-> EmptyDict]
    /\ alert_states = [g \in Guilds |-> EmptyDict]
    /\ last_timestamp = 0
    /\ last_raw_json = <<>>
    /\ pc = "idle"
    /\ status = NoStatus
    /\ todo = <<>>
    /\ midx = 1
    /\ models_now_down = <<>>
    /\ models_now_recovered = <<>>
    /\ sent = <<>>
    /\ clearing = {}
    /\ script \in [1..FanLen -> {"red", "green"}]
    /\ pos = 0
    /\ current_loop = 0
    /\ delivered = NothingDelivered
    /\ NoReactions

NextFanout ==
    \/ /\ pos < Len(script)
       /\ PollFetch(ScriptBody(pos + 1))
       /\ pos' = pos + 1
       /\ UNCHANGED <<script, current_loop, delivered, subscription>>
    \/ LogStatus(Len(status.models)) /\ Unscripted
    \/ UpdateAllEmbeds(TRUE) /\ Unscripted
    \/ \E ok \in BOOLEAN :
           /\ pc = "render" /\ (ok \/ Head(etodo) = GuildSeq[1])
           /\ UpdateGuildEmbed(ok) /\ Unscripted
    \/ LoadNotificationConfigs(TRUE) /\ Unscripted
    \/ \E ok \in BOOLEAN :
           /\ pc = "alert" /\ (ok \/ Head(todo) = GuildSeq[1])
           /\ ProcessModel(ok) /\ Unscripted
    \/ \E channel \in BOOLEAN, ok \in BOOLEAN :
           /\ pc = "dispatch" /\ ((channel /\ ok) \/ Head(todo) = GuildSeq[1])
           /\ Dispatch(channel, ok) /\ Unscripted

SpecFanout == InitFanout /\ [][NextFanout]_vars

(***************************************************************************)
(* The schedule: the process is up, one guild has a status channel and     *)
(* alerts set up, every call of a cycle may fail, and the iterations the   *)
(* timer starts are counted.  The event loop keeps running the poll task:  *)
(* the timer fires again after each iteration and every awaited call       *)
(* returns or raises.                                                      *)
(***************************************************************************)
\* the iterations are counted modulo LoopMod
LoopMod == 2

LiveBodies == Bodies({MODEL_ORDER[1]}, {"green", "red"})

InitLive ==
    /\ max_depth = MaxDepth
    /\ history = EmptyDict
    /\ status_log = [m \in ModelNames |-> <<>>]
    /\ status_channel = [g \in Guilds |-> IF g = GuildSeq[1] THEN 1 ELSE 0]
    /\ etodo = <<>>
    /\ rendered = {}
    /\ notif_config = [g \in Guilds |->
                          IF g = GuildSeq[1]
                          THEN [notification_channel_id |-> 1, notification_role_id |-> 1]
                          ELSE NoConfig]
    /\ alert_db = [g \in Guilds |-> EmptyDict]
    /\ alert_states = [g \in Guilds |-> EmptyDict]
    /\ last_timestamp = 0
    /\ last_raw_json = <<>>
    /\ pc = "idle"
    /\ status = NoStatus
    /\ todo = <<>>
    /\ midx = 1
    /\ models_now_down = <<>>
    /\ models_now_recovered = <<>>
    /\ sent = <<>>
    /\ clearing = {}
    /\ script = <<>>
    /\ pos = 0
    /\ current_loop = 0
    /\ delivered = NothingDelivered
    /\ NoReactions

\* the timer has started one more iteration
Tick ==
    /\ current_loop' = (current_loop + 1) % LoopMod
    /\ UNCHANGED <<script, pos, delivered, subscription>>

NextLive ==
    \/ FetchFailed /\ Tick
    \/ \E body \in LiveBodies : PollFetch(body) /\ Tick
    \/ \E written \in 0..Len(MODEL_ORDER) : LogStatus(written) /\ Unscripted
    \/ \E ok \in BOOLEAN : UpdateAllEmbeds(ok) /\ Unscripted
    \/ \E ok \in BOOLEAN : UpdateGuildEmbed(ok) /\ Unscripted
    \/ \E ok \in BOOLEAN : LoadNotificationConfigs(ok) /\ Unscripted
    \/ \E ok \in BOOLEAN : ProcessModel(ok) /\ Unscripted
    \/ \E channel \in BOOLEAN, ok \in BOOLEAN : Dispatch(channel, ok) /\ Unscripted

SpecLive == InitLive /\ [][NextLive]_vars /\ WF_vars(NextLive)

(***************************************************************************)
(* Vocabulary of the properties.                                           *)
(***************************************************************************)
\* the state a sample for (g, m) meets: the stored one, or the one line 388 creates
Before(g, m) ==
    IF m \in DOMAIN alert_states[g] THEN alert_states[g][m] ELSE ModelAlertState

IsActive(state) == state.is_notified # 0

\* this step is a pass of the per-model loop that feeds (g, m) the label health
Feeds(g, m, health) ==
    /\ pc = "alert"
    /\ Head(todo) = g
    /\ status.models[midx].name = m
    /\ status.models[midx].health = health
    /\ pc' # "boot"
    /\ (midx' = midx + 1 \/ todo' # todo)

\* ... and the pass ran to its end (update_alert_state returned)
Completes == midx' = midx + 1

RaisesDown(m) == models_now_down' = Append(models_now_down, m)
RaisesRecovered(m) == models_now_recovered' = Append(models_now_recovered, m)
RaisesNothing ==
    /\ models_now_down' = models_now_down
    /\ models_now_recovered' = models_now_recovered

NeutralLabels == HealthLabels \ {"red", "green"}

(***************************************************************************)
(* C1.  A Down sample adds 1 to consecutive_down and zeroes                *)
(* consecutive_healthy; EntityDown is raised in that pass iff the          *)
(* incremented counter is at least DOWN_THRESHOLD and is_active was false, *)
(* and then is_active becomes true; it is never raised while is_active is  *)
(* already true.                                                           *)
(***************************************************************************)
C1_DownStep ==
    \A g \in Guilds, m \in ModelNames :
        Feeds(g, m, "red") =>
            LET before == Before(g, m)
                after == alert_states'[g][m]
                crosses == /\ before.consecutive_red + 1 >= DOWN_THRESHOLD
                           /\ ~IsActive(before)
            IN  /\ after.consecutive_red = before.consecutive_red + 1
                /\ after.consecutive_green = 0
                /\ IsActive(after) = (IsActive(before) \/ crosses)
                /\ Completes =>
                       /\ models_now_recovered' = models_now_recovered
                       /\ IF crosses THEN RaisesDown(m)
                          ELSE models_now_down' = models_now_down
                       /\ IsActive(before) => models_now_down' = models_now_down

C1_DownSample == [][C1_DownStep]_vars

C1_Witness ==
    /\ pc \in {"alert", "dispatch"}
    /\ models_now_down # <<>>
    /\ LET state == alert_states[Head(todo)][models_now_down[1]]
       IN  IsActive(state) /\ state.consecutive_red >= DOWN_THRESHOLD

(***************************************************************************)
(* C2.  A Healthy sample zeroes consecutive_down; consecutive_healthy      *)
(* grows by 1 only if is_active is true and otherwise stays 0;             *)
(* EntityRecovered is raised iff is_active was true and the counter        *)
(* reaches RECOVERY_THRESHOLD, and then is_active becomes false and        *)
(* consecutive_healthy is 0 again.                                         *)
(***************************************************************************)
C2_HealthyStep ==
    \A g \in Guilds, m \in ModelNames :
        Feeds(g, m, "green") =>
            LET before == Before(g, m)
                after == alert_states'[g][m]
                recovers == /\ IsActive(before)
                            /\ before.consecutive_green + 1 >= RECOVERY_THRESHOLD
            IN  /\ after.consecutive_red = 0
                /\ ~IsActive(before) =>
                       /\ before.consecutive_green = 0
                       /\ after.consecutive_green = 0
                       /\ ~IsActive(after)
                /\ IsActive(before) /\ ~recovers =>
                       /\ after.consecutive_green = before.consecutive_green + 1
                       /\ IsActive(after)
                /\ recovers => ~IsActive(after) /\ after.consecutive_green = 0
                /\ Completes =>
                       /\ models_now_down' = models_now_down
                       /\ IF recovers THEN RaisesRecovered(m)
                          ELSE models_now_recovered' = models_now_recovered

C2_HealthySample == [][C2_HealthyStep]_vars

C2_Witness ==
    /\ pc \in {"alert", "dispatch"}
    /\ models_now_recovered # <<>>
    /\ LET state == alert_states[Head(todo)][models_now_recovered[1]]
       IN  /\ ~IsActive(state)
           /\ state.consecutive_green = 0
           /\ state.consecutive_red = 0

(***************************************************************************)
(* C4.  For every (scope, entity), in memory and in the persisted rows a   *)
(* restart restores, at most one of consecutive_down and                   *)
(* consecutive_healthy is nonzero.                                         *)
(***************************************************************************)
OneCounter(state) == state.consecutive_red = 0 \/ state.consecutive_green = 0

C4_CountersExclusive ==
    \A g \in Guilds :
        /\ \A m \in DOMAIN alert_states[g] : OneCounter(alert_states[g][m])
        /\ \A m \in DOMAIN alert_db[g] : OneCounter(alert_db[g][m])

\* a state restored at startup (no snapshot accepted yet) that is part-way to recovery
C4_Witness ==
    /\ pc = "idle"
    /\ last_timestamp = 0
    /\ \E g \in Guilds : \E m \in DOMAIN alert_states[g] :
           alert_states[g][m].consecutive_green > 0

(***************************************************************************)
(* The scripted specifications feed one key.                               *)
(***************************************************************************)
Scope == GuildSeq[1]
Entity == MODEL_ORDER[1]

\* the samples fed so far
Fed == SubSeq(script, 1, pos)

\* the cycle of sample pos has run its per-model loop: it is at the dispatch
\* or over
Processed == pc \in {"dispatch", "idle"} /\ pos >= 1

(***************************************************************************)
(* C3.  A sample that is neither 'red' nor 'green' (degraded, unknown, an  *)
(* unrecognised label) leaves both counters and is_active of its key       *)
(* unchanged and raises no event; so Down, any number of such samples,     *)
(* Down counts as two consecutive Down samples and raises EntityDown       *)
(* (threshold 2).                                                          *)
(***************************************************************************)
C3_NeutralStep ==
    \A g \in Guilds, m \in ModelNames, health \in NeutralLabels :
        Feeds(g, m, health) =>
            /\ alert_states'[g][m] = Before(g, m)
            /\ Completes => RaisesNothing

C3_DownNeutralsDown ==
    \A k \in 0..(NeutralLen - 2) :
        ( /\ pos = k + 2
          /\ script[1] = "red"
          /\ \A i \in 2..(k + 1) : script[i] \in NeutralLabels
          /\ script[k + 2] = "red"
          /\ Processed )
        => /\ alert_states[Scope][Entity].consecutive_red = 2
           /\ IsActive(alert_states[Scope][Entity])
           /\ pc = "dispatch" => models_now_down = <<Entity>>

C3_NeutralSample == [][C3_NeutralStep]_vars /\ []C3_DownNeutralsDown

C3_Witness ==
    /\ pos = 4
    /\ script[1] = "red" /\ script[2] = "unknown" /\ script[3] = "purple"
    /\ script[4] = "red"
    /\ pc = "dispatch"
    /\ models_now_down = <<Entity>>

(***************************************************************************)
(* C5.  From a fresh key, DOWN_THRESHOLD Down samples raise EntityDown     *)
(* exactly once, on the last of them, and leave is_active true; of the     *)
(* RECOVERY_THRESHOLD Healthy samples that follow, all but the last raise  *)
(* nothing and count up consecutive_healthy with is_active true, and the   *)
(* last raises EntityRecovered and leaves is_active false with both        *)
(* counters 0.                                                             *)
(***************************************************************************)
DownThenHealthy ==
    \A i \in 1..(DOWN_THRESHOLD + RECOVERY_THRESHOLD) :
        script[i] = IF i <= DOWN_THRESHOLD THEN "red" ELSE "green"

C5_Scenario ==
    (DownThenHealthy /\ Processed /\ pos <= DOWN_THRESHOLD + RECOVERY_THRESHOLD) =>
        LET state == alert_states[Scope][Entity]
            healthy == pos - DOWN_THRESHOLD
        IN  /\ pc = "dispatch" =>
                /\ models_now_down =
                       IF pos = DOWN_THRESHOLD THEN <<Entity>> ELSE <<>>
                /\ models_now_recovered =
                       IF healthy = RECOVERY_THRESHOLD THEN <<Entity>> ELSE <<>>
            /\ healthy < 0 =>
                /\ ~IsActive(state)
                /\ state.consecutive_red = pos
                /\ state.consecutive_green = 0
            /\ (healthy >= 0 /\ healthy < RECOVERY_THRESHOLD) =>
                /\ IsActive(state)
                /\ state.consecutive_green = healthy
            /\ healthy = RECOVERY_THRESHOLD =>
                /\ ~IsActive(state)
                /\ state.consecutive_red = 0
                /\ state.consecutive_green = 0

C5_Witness ==
    /\ DownThenHealthy
    /\ pos = DOWN_THRESHOLD + RECOVERY_THRESHOLD
    /\ pc = "dispatch"
    /\ models_now_recovered = <<Entity>>
    /\ ~IsActive(alert_states[Scope][Entity])

(***************************************************************************)
(* C6.  After any sequence of samples fed to a fresh key, is_active is     *)
(* true iff, neutral samples ignored, the sequence has a run of at least   *)
(* DOWN_THRESHOLD Down samples that is not followed by a run of at least   *)
(* RECOVERY_THRESHOLD Healthy samples.                                     *)
(***************************************************************************)
IsCounted(health) == health \in {"red", "green"}

\* samples[first..last] all carry the label health
Run(samples, first, last, health) == \A j \in first..last : samples[j] = health

Declared(samples) ==
    \E i \in DOWN_THRESHOLD..Len(samples) :
        /\ Run(samples, i - DOWN_THRESHOLD + 1, i, "red")
        /\ ~\E j \in (i + 1)..(Len(samples) - RECOVERY_THRESHOLD + 1) :
               Run(samples, j, j + RECOVERY_THRESHOLD - 1, "green")

C6_ActiveIffDeclared ==
    pc = "idle" => (IsActive(Before(Scope, Entity)) <=> Declared(SelectSeq(Fed, IsCounted)))

\* declared, recovered and declared again, with a neutral sample in between
C6_Witness ==
    /\ pc = "idle"
    /\ pos = ScriptLen
    /\ IsActive(Before(Scope, Entity))
    /\ \E j \in 1..(pos - RECOVERY_THRESHOLD) :
           Run(Fed, j, j + RECOVERY_THRESHOLD - 1, "green")
    /\ \E i \in 1..pos : ~IsCounted(Fed[i])

(***************************************************************************)
(* C7.  In one cycle and scope the entities that newly go down (recover)   *)
(* are collected in the per-model loop; nothing is sent for the scope      *)
(* before the loop is over, and then at most one down notification and at  *)
(* most one recovery notification are sent, each listing every collected   *)
(* entity.                                                                 *)
(***************************************************************************)
Sent(g, kind) == {i \in DOMAIN sent : sent[i].guild = g /\ sent[i].kind = kind}

C7_AtMostOneEach ==
    /\ \A g \in Guilds, kind \in {"down", "recovered"} : Cardinality(Sent(g, kind)) <= 1
    /\ pc \in {"alert", "dispatch"} =>
           Sent(Head(todo), "down") \cup Sent(Head(todo), "recovered") = {}
    /\ pc = "dispatch_recovered" => Sent(Head(todo), "recovered") = {}

\* a pass that switches is_active collects its entity, and the lists only grow
C7_Collects ==
    \A g \in Guilds, m \in ModelNames, health \in HealthLabels :
        (Feeds(g, m, health) /\ Completes) =>
            LET before == Before(g, m)
                after == alert_states'[g][m]
            IN  /\ (~IsActive(before) /\ IsActive(after)) => RaisesDown(m)
                /\ (IsActive(before) /\ ~IsActive(after)) => RaisesRecovered(m)
                /\ IsActive(before) = IsActive(after) => RaisesNothing

\* a message handed to the sink lists the whole list of its kind
C7_SendsWholeList ==
    Len(sent') > Len(sent) =>
        /\ pc \in {"dispatch", "dispatch_recovered"}
        /\ Len(sent') = Len(sent) + 1
        /\ sent'[Len(sent')].guild = Head(todo)
        /\ sent'[Len(sent')].models =
               IF sent'[Len(sent')].kind = "down"
               THEN models_now_down
               ELSE models_now_recovered

C7_BatchedNotifications ==
    []C7_AtMostOneEach /\ [][C7_Collects /\ C7_SendsWholeList]_vars

\* both entities crossed the down threshold in one cycle: one message names both
C7_Witness ==
    \E i \in DOMAIN sent :
        /\ sent[i].kind = "down"
        /\ Len(sent[i].models) = 2
        /\ Cardinality(Sent(sent[i].guild, "down")) = 1

(***************************************************************************)
(* C8.  Every AlertState mutation of a cycle is in the persistent store    *)
(* before the cycle's first notification for that scope is handed to the   *)
(* alert sink: a pass that mutates writes its state before it ends, the    *)
(* sink is used only after every entity of the snapshot had its pass, and  *)
(* at that time each row of the scope equals the state in memory.          *)
(***************************************************************************)
C8_PassWrites ==
    \A g \in Guilds, m \in ModelNames, health \in HealthLabels :
        (Feeds(g, m, health) /\ Completes) =>
            /\ m \in DOMAIN alert_db'[g]
            /\ alert_db'[g][m] = ToRow(alert_states'[g][m])

C8_MutationsInPasses ==
    /\ (alert_states' # alert_states /\ pc # "boot" /\ pc' # "boot") =>
           \E g \in Guilds, m \in ModelNames, health \in HealthLabels : Feeds(g, m, health)
    /\ Len(sent') > Len(sent) => pc \in {"dispatch", "dispatch_recovered"}

C8_WrittenAtDispatch ==
    pc \in {"dispatch", "dispatch_recovered"} =>
        /\ midx = Len(status.models) + 1
        /\ \A m \in DOMAIN alert_db[Head(todo)] :
               /\ m \in DOMAIN alert_states[Head(todo)]
               /\ alert_db[Head(todo)][m] = ToRow(alert_states[Head(todo)][m])

C8_PersistedBeforeDispatch ==
    []C8_WrittenAtDispatch /\ [][C8_PassWrites /\ C8_MutationsInPasses]_vars

\* a down notification is about to be sent and the store holds the new state
C8_Witness ==
    /\ pc = "dispatch"
    /\ models_now_down # <<>>
    /\ \A i \in 1..Len(status.models) :
           /\ status.models[i].name \in DOMAIN alert_db[Head(todo)]
           /\ alert_db[Head(todo)][status.models[i].name] =
                  ToRow(alert_states[Head(todo)][status.models[i].name])
    /\ IsActive(alert_db[Head(todo)][models_now_down[1]])

(***************************************************************************)
(* C9.  The startup restore gives every key of an alert-configured scope   *)
(* its persisted state, counters included, and no state to a key without a *)
(* row; a key restored with one Down counted and is_active false raises    *)
(* EntityDown on one more Down sample (DOWN_THRESHOLD 2).                  *)
(***************************************************************************)
C9_RestoreStep ==
    (pc = "boot" /\ pc' = "idle") =>
        \A g \in Guilds :
            notif_config[g].notification_channel_id # 0 =>
                /\ DOMAIN alert_states'[g] = DOMAIN alert_db[g]
                /\ \A m \in DOMAIN alert_db[g] :
                       /\ alert_states'[g][m].consecutive_red = alert_db[g][m].consecutive_red
                       /\ alert_states'[g][m].consecutive_green =
                              alert_db[g][m].consecutive_green
                       /\ IsActive(alert_states'[g][m]) = (alert_db[g][m].is_notified # 0)

C9_OneMoreDown ==
    \A g \in Guilds, m \in ModelNames :
        ( /\ Feeds(g, m, "red")
          /\ Completes
          /\ m \in DOMAIN alert_states[g]
          /\ alert_states[g][m].consecutive_red = DOWN_THRESHOLD - 1
          /\ ~IsActive(alert_states[g][m]) )
        => RaisesDown(m) /\ IsActive(alert_states'[g][m])

C9_RestoredCounters == [][C9_RestoreStep /\ C9_OneMoreDown]_vars

\* just restored (no snapshot accepted since the start): one Down counted, not active
C9_Witness ==
    /\ pc = "idle"
    /\ last_timestamp = 0
    /\ \E g \in Guilds : \E m \in DOMAIN alert_states[g] :
           /\ alert_states[g][m].consecutive_red = DOWN_THRESHOLD - 1
           /\ ~IsActive(alert_states[g][m])
           /\ alert_db[g][m].consecutive_red = DOWN_THRESHOLD - 1

(***************************************************************************)
(* C10.  When the clear of a scope's alert configuration has run, no       *)
(* AlertState of the scope is left, in the store or in memory.             *)
(***************************************************************************)
\* this step is the clear_alert_states call that ends the clear of g
EndsClear(g) ==
    /\ g \in clearing
    /\ g \notin clearing'
    /\ pc # "boot"
    /\ pc' = pc

C10_ClearStep ==
    \A g \in Guilds :
        EndsClear(g) => alert_db'[g] = EmptyDict /\ alert_states'[g] = EmptyDict

C10_ClearDeletesStates == [][C10_ClearStep]_vars

(***************************************************************************)
(* C11.  On the transition that raises EntityRecovered both counters are 0 *)
(* immediately after; on the transition that raises EntityDown             *)
(* consecutive_healthy is 0 and consecutive_down keeps the count that      *)
(* crossed the threshold (at least DOWN_THRESHOLD): it is zeroed by the    *)
(* next Healthy sample only.                                               *)
(***************************************************************************)
\* this step is a completed pass for (g, m) that raises an event
Fires(g, m) ==
    /\ \E health \in HealthLabels : Feeds(g, m, health)
    /\ Completes
    /\ (RaisesDown(m) \/ RaisesRecovered(m))

C11_FiredStep ==
    \A g \in Guilds, m \in ModelNames :
        Fires(g, m) =>
            LET before == Before(g, m)
                after == alert_states'[g][m]
            IN  /\ after.consecutive_green = 0
                /\ RaisesRecovered(m) => after.consecutive_red = 0 /\ ~IsActive(after)
                /\ RaisesDown(m) =>
                       /\ after.consecutive_red = before.consecutive_red + 1
                       /\ after.consecutive_red >= DOWN_THRESHOLD
                       /\ IsActive(after)

C11_CountersOnTransition == [][C11_FiredStep]_vars

\* EntityDown has just been raised and the down counter stands at the threshold
C11_Witness ==
    /\ pc = "dispatch"
    /\ Len(models_now_down) = 1
    /\ LET state == alert_states[Head(todo)][models_now_down[1]]
       IN  /\ state.consecutive_red = DOWN_THRESHOLD
           /\ state.consecutive_green = 0
           /\ IsActive(state)
    /\ alert_db[Head(todo)][models_now_down[1]].consecutive_red = DOWN_THRESHOLD

\* the statement as written: both counters are 0 after either transition
C11_BothZeroStep ==
    \A g \in Guilds, m \in ModelNames :
        Fires(g, m) =>
            /\ alert_states'[g][m].consecutive_red = 0
            /\ alert_states'[g][m].consecutive_green = 0

C11_BothCountersZero == [][C11_BothZeroStep]_vars

(***************************************************************************)
(* Vocabulary of the history properties.                                   *)
(***************************************************************************)
\* the last n values of a sequence, in order
LastN(values, n) ==
    LET kept == IF Len(values) < n THEN Len(values) ELSE n
    IN  [i \in 1..kept |-> values[Len(values) - kept + i]]

\* the buffer of an entity, empty until its first value
Buffer(hist, m) == IF m \in DOMAIN hist THEN hist[m] ELSE <<>>

\* this step accepts a snapshot (in the poll cycle or in a command handler)
Accepts == last_timestamp' # last_timestamp /\ last_timestamp' # 0

\* this step is the startup restore
Restores == pc = "boot" /\ pc' = "idle"

\* this step is a process restart
Restarts == pc' = "boot" /\ last_timestamp' = 0 /\ history' = EmptyDict

(***************************************************************************)
(* C12.  No HistoryBuffer is ever longer than the capacity, whatever       *)
(* ingestions and restores have run; every accepted ingestion leaves each  *)
(* buffer it appends to holding the last `capacity` of the values that     *)
(* arrived, oldest first, and the restore leaves the last `capacity` of    *)
(* the buffer's values followed by the restored ones.                      *)
(***************************************************************************)
C12_WithinCapacity == \A m \in DOMAIN history : Len(history[m]) <= max_depth

C12_IngestStep ==
    Accepts =>
        \A m \in ModelNames :
            \/ Buffer(history', m) = Buffer(history, m)
            \/ \E health \in HealthLabels :
                   /\ Buffer(history', m) =
                          LastN(Append(Buffer(history, m), health), max_depth)
                   /\ (pc = "idle" /\ pc' = "log") =>
                          \E i \in 1..Len(status'.models) :
                              status'.models[i] = [name |-> m, health |-> health]

C12_RestoreStep ==
    Restores =>
        \A m \in ModelNames :
            Buffer(history', m) =
                LastN(Buffer(history, m) \o LastN(status_log[m], max_depth), max_depth)

C12_BoundedHistory ==
    []C12_WithinCapacity /\ [][C12_IngestStep /\ C12_RestoreStep]_vars

\* capacity 1: a down sample was logged earlier, so it has been in the buffer
\* (ingested in this run or restored); the cycle has now ingested a healthy one
\* and the buffer holds only that
C12_Witness ==
    /\ max_depth = 1
    /\ pc = "log"
    /\ status.timestamp = last_timestamp
    /\ status.models = <<[name |-> MODEL_ORDER[1], health |-> "green"]>>
    /\ status_log[MODEL_ORDER[1]] = <<"red">>
    /\ history[MODEL_ORDER[1]] = <<"green">>

(***************************************************************************)
(* Vocabulary of the replay properties.                                    *)
(***************************************************************************)
\* this step is the fetch of response number pos + 1
Fetches == pos' = pos + 1

Response == script[pos + 1]

\* response i carried a body that parses
Parses(i) == script[i].code = 200 /\ ParseStatus(script[i].body) # NoStatus

\* the health a snapshot reports for m, "" if it does not report m
Reported(snapshot, m) ==
    IF \E i \in 1..Len(snapshot.models) : snapshot.models[i].name = m
    THEN (CHOOSE model \in {snapshot.models[i] : i \in 1..Len(snapshot.models)} :
              model.name = m).health
    ELSE ""

\* nothing but the cached body differs after the step
OnlyCaches ==
    UNCHANGED <<notif_config, alert_db, alert_states, last_timestamp, pc, status, todo,
                midx, models_now_down, models_now_recovered, sent, clearing, tracker,
                display>>

(***************************************************************************)
(* C13.  A snapshot handed to add_snapshot with a timestamp less than or   *)
(* equal to the last accepted one is refused and nothing changes (no       *)
(* buffer, not the last-seen timestamp, and the cycle ends); one with a    *)
(* greater timestamp, or the first ever, is accepted: each entity it       *)
(* reports gets exactly one value appended, no other buffer changes, and   *)
(* the last-seen timestamp becomes its timestamp.                          *)
(***************************************************************************)
C13_IngestStep ==
    (Fetches /\ Parses(pos + 1) /\ last_raw_json # <<Response.body>>) =>
        LET snapshot == ParseStatus(Response.body)
        IN  IF last_timestamp # 0 /\ snapshot.timestamp <= last_timestamp
            THEN OnlyCaches /\ pc' = "idle"
            ELSE /\ pc' = "log"
                 /\ status' = snapshot
                 /\ last_timestamp' = snapshot.timestamp
                 /\ \A m \in ModelNames :
                        IF Reported(snapshot, m) # ""
                        THEN history'[m] =
                                 LastN(Append(Buffer(history, m), Reported(snapshot, m)),
                                       max_depth)
                        ELSE /\ (m \in DOMAIN history') = (m \in DOMAIN history)
                             /\ Buffer(history', m) = Buffer(history, m)

\* buffers and the last-seen timestamp change in no other step of the cycle
C13_OnlyIngestWrites ==
    (history' # history \/ last_timestamp' # last_timestamp) =>
        Fetches /\ Parses(pos + 1) /\ pc' = "log"

C13_StaleIsNoOp == [][C13_IngestStep /\ C13_OnlyIngestWrites]_vars

\* the last response parsed, was cached and was refused for its older timestamp
C13_Witness ==
    /\ pos >= 2
    /\ pc = "idle"
    /\ Parses(pos)
    /\ last_raw_json = <<script[pos].body>>
    /\ ParseStatus(script[pos].body).timestamp < last_timestamp
    /\ Parses(pos - 1)
    /\ ParseStatus(script[pos - 1].body).timestamp = last_timestamp
    /\ Len(history[MODEL_ORDER[1]]) = 1

(***************************************************************************)
(* C14.  A 200 response whose body equals the body of the last fetch that  *)
(* parsed makes fetch_if_changed report changed = false without calling    *)
(* the parser, and the cycle ends there: nothing is ingested, logged,      *)
(* displayed or fed to the alert state machine.                            *)
(***************************************************************************)
\* the responses fetched so far that parsed
ParsedSoFar == {i \in 1..pos : Parses(i)}

\* the next response repeats the body of the last one that parsed
RepeatsLastParsed ==
    /\ ParsedSoFar # {}
    /\ Response.code = 200
    /\ Response.body =
           script[CHOOSE i \in ParsedSoFar : \A j \in ParsedSoFar : j <= i].body

C14_RepeatStep ==
    (Fetches /\ RepeatsLastParsed) =>
        /\ ~FetchIfChanged(Response.body).changed
        /\ ~FetchIfChanged(Response.body).parsed
        /\ FetchIfChanged(Response.body).status = ParseStatus(Response.body)
        /\ UNCHANGED prog

C14_IdenticalBodySkipped == [][C14_RepeatStep]_vars

\* the same body twice in a row: the first was ingested, displayed and fed to the
\* alert state machine, the second left all of it as it was
C14_Witness ==
    /\ pos = 2
    /\ pc = "idle"
    /\ Parses(1)
    /\ script[2] = script[1]
    /\ last_timestamp = ParseStatus(script[1].body).timestamp
    /\ Len(history[MODEL_ORDER[1]]) = 1
    /\ Len(status_log[MODEL_ORDER[1]]) = 1
    /\ rendered = {GuildSeq[1]}
    /\ MODEL_ORDER[1] \in DOMAIN alert_states[GuildSeq[1]]

(***************************************************************************)
(* C15.  A fetch that fails in transport (non-200 status, or the request   *)
(* raised) ends the cycle at once and leaves the cached body and snapshot, *)
(* every HistoryBuffer, the last-seen timestamp, the sample log and every  *)
(* AlertState as they were; the next cycle starts from the idle position.  *)
(***************************************************************************)
C15_FailureStep ==
    (Fetches /\ Response.code \in FailureCodes) =>
        /\ UNCHANGED prog
        /\ LastStatus' = LastStatus
        /\ pc' = "idle"

C15_TransportFailureNoChange == [][C15_FailureStep]_vars

\* a failed fetch after a cycle that ingested, logged and ran the state machine
C15_Witness ==
    /\ pos >= 2
    /\ pc = "idle"
    /\ script[pos].code \in FailureCodes
    /\ Parses(pos - 1)
    /\ last_raw_json = <<script[pos - 1].body>>
    /\ last_timestamp = ParseStatus(script[pos - 1].body).timestamp
    /\ Len(status_log[MODEL_ORDER[1]]) >= 1
    /\ MODEL_ORDER[1] \in DOMAIN alert_states[GuildSeq[1]]
    /\ MODEL_ORDER[1] \in DOMAIN alert_db[GuildSeq[1]]

(***************************************************************************)
(* C16.  Failures while rendering or alerting for one scope leave the      *)
(* cycle running for the other: whatever fails for the first guild, in     *)
(* every cycle the second guild's embed is rendered, its alert state       *)
(* machine is run on the cycle's sample and written to the store, and the  *)
(* event the sample raises is sent to it as one notification.              *)
(***************************************************************************)
Other == GuildSeq[2]

\* the state of a fresh key after the first n samples, and the event sample n raises
RECURSIVE StateAfter(_, _)
StateAfter(samples, n) ==
    IF n = 0 THEN ModelAlertState
    ELSE AlertStep(StateAfter(samples, n - 1), samples[n]).state

EventAt(samples, n) == AlertStep(StateAfter(samples, n - 1), samples[n]).event

C16_OtherScopeServed ==
    /\ (pos >= 1 /\ pc \in {"configs", "alert", "dispatch", "idle"}) => Other \in rendered
    /\ (pos >= 1 /\ pc = "idle") =>
           /\ Entity \in DOMAIN alert_states[Other]
           /\ alert_states[Other][Entity] = StateAfter(script, pos)
           /\ Entity \in DOMAIN alert_db[Other]
           /\ alert_db[Other][Entity] = ToRow(StateAfter(script, pos))
           /\ IF EventAt(script, pos) = "none"
              THEN Sent(Other, "down") \cup Sent(Other, "recovered") = {}
              ELSE \E i \in DOMAIN sent :
                       sent[i] = [guild |-> Other, kind |-> EventAt(script, pos),
                                  models |-> <<Entity>>]

\* a cycle in which the first guild's embed, state write and notification all
\* failed, and the second guild got its embed and its alert
C16_Witness ==
    /\ pc = "idle"
    /\ pos = DOWN_THRESHOLD
    /\ rendered = {Other}
    /\ Entity \notin DOMAIN alert_db[GuildSeq[1]]
    /\ Sent(GuildSeq[1], "down") = {}
    /\ Sent(Other, "down") # {}
    /\ IsActive(alert_states[Other][Entity])

(***************************************************************************)
(* C17.  Whatever fails inside a cycle (fetch, parse, sample logging,      *)
(* display, alert processing, persistence), the poll task returns to the   *)
(* timer and another iteration is started, again and again.                *)
(***************************************************************************)
C17_ScheduleKeepsRunning ==
    /\ \A n \in 0..(LoopMod - 1) : (current_loop = n) ~> (current_loop # n)
    /\ (pc # "idle") ~> (pc = "idle")

\* an iteration is running after an earlier one died in log_status: the buffer
\* holds two accepted samples and the sample log none
C17_Witness ==
    /\ pc = "log"
    /\ Len(history[MODEL_ORDER[1]]) = 2
    /\ status_log[MODEL_ORDER[1]] = <<>>

(***************************************************************************)
(* C18.  An iteration of the poll loop is started only when the previous   *)
(* one has finished its fetch, ingestion and fan-out: at the start no      *)
(* cycle holds a snapshot or has guilds left to visit, and buffers, sample *)
(* log and alert states are written by the steps of that one cycle only.   *)
(***************************************************************************)
\* this step starts an iteration
Starts == current_loop' # current_loop

\* no cycle is in progress
NoCycle ==
    /\ pc = "idle"
    /\ status = NoStatus
    /\ todo = <<>>
    /\ etodo = <<>>
    /\ midx = 1
    /\ models_now_down = <<>>
    /\ models_now_recovered = <<>>

C18_StartStep ==
    /\ Starts => NoCycle
    /\ (history' # history \/ last_timestamp' # last_timestamp) => Starts /\ pc' = "log"
    /\ status_log' # status_log => pc = "log" /\ ~Starts
    /\ alert_states' # alert_states => pc = "alert" /\ ~Starts
    /\ rendered' # rendered => (pc = "render" /\ ~Starts) \/ (Starts /\ pc' = "log")

PollIngests == pc # "log" /\ pc' = "log"

\* the poll task is waiting in before_status_loop: no cycle, nothing in memory
C19_NothingBeforeRestore ==
    pc = "boot" =>
        /\ status = NoStatus /\ todo = <<>> /\ etodo = <<>>
        /\ alert_states = [g \in Guilds |-> EmptyDict]
        /\ sent = <<>> /\ rendered = {}

\* nothing processed since the start: memory holds what the store holds
C19_RestoredUntilFirstCycle ==
    (pc = "idle" /\ last_timestamp = 0) =>
        /\ \A m \in ModelNames : Buffer(history, m) = LastN(status_log[m], max_depth)
        /\ \A g \in Guilds :
               notif_config[g].notification_channel_id # 0 =>
                   /\ DOMAIN alert_states[g] = DOMAIN alert_db[g]
                   /\ \A m \in DOMAIN alert_db[g] :
                          ToRow(alert_states[g][m]) = alert_db[g][m]

C19_GateStep ==
    /\ (pc = "boot" /\ pc' # "boot") => Restores
    /\ pc = "boot" =>
           /\ status_log' = status_log /\ alert_db' = alert_db
           /\ sent' = sent /\ rendered' = rendered
           /\ alert_states' # alert_states => Restores
    /\ PollIngests => pc = "idle"
    /\ (PollIngests /\ last_timestamp = 0) =>
           \A m \in ModelNames : Buffer(history, m) = LastN(status_log[m], max_depth)

C19_RestoreBeforeFirstCycle ==
    /\ []C19_NothingBeforeRestore
    /\ []C19_RestoredUntilFirstCycle
    /\ [][C19_GateStep]_vars

\* the first cycle after a restart has ingested its snapshot on top of a restored
\* sample and is about to run on a restored alert state
C19_Witness ==
    /\ pc = "log"
    /\ max_depth = 2
    /\ status.timestamp = 1
    /\ last_timestamp = 1
    /\ Len(history[MODEL_ORDER[1]]) = 2
    /\ Len(status_log[MODEL_ORDER[1]]) >= 1
    /\ MODEL_ORDER[1] \in DOMAIN alert_states[GuildSeq[1]]
    /\ alert_states[GuildSeq[1]][MODEL_ORDER[1]].consecutive_red = 1

(***************************************************************************)
(* C20.  HistoryBuffers, the last-seen timestamp and the AlertState map    *)
(* change only in steps of the poll task (a cycle's ingestion and alert    *)
(* passes, the startup restore) or when the process restarts; a command    *)
(* handler's step leaves them as they are.                                 *)
(***************************************************************************)
\* the poll task moves in this step
PollTaskStep == pc' # pc \/ midx' # midx \/ todo' # todo \/ etodo' # etodo

C20_OwnedStep ==
    (history' # history \/ last_timestamp' # last_timestamp \/ alert_states' # alert_states)
        => (PollTaskStep \/ Restarts)

C20_OwnedByPollTask == [][C20_OwnedStep]_vars

(***************************************************************************)
(* Vocabulary of the fan-out properties.                                   *)
(***************************************************************************)
\* this step is a step of a running poll cycle (not a command handler's, not a
\* restart, not the startup restore)
CycleStep ==
    /\ pc \notin {"boot", "idle"}
    /\ pc' # "boot"
    /\ (pc' # pc \/ midx' # midx \/ todo' # todo \/ etodo' # etodo)

\* a message for g is handed to the alert sink in this step
SendsTo(g) == Len(sent') > Len(sent) /\ sent'[Len(sent')].guild = g

(***************************************************************************)
(* C21.  While a scope has no alert channel, or an alert channel and no    *)
(* role, no step of a poll cycle runs the alert state machine for it: the  *)
(* step leaves the scope's AlertStates in memory and its rows as they are, *)
(* collects no event for it and sends nothing to it.                       *)
(***************************************************************************)
C21_FrameStep ==
    \A g \in Guilds :
        (CycleStep /\ ~Notifiable(g)) =>
            /\ alert_states'[g] = alert_states[g]
            /\ alert_db'[g] = alert_db[g]
            /\ ~SendsTo(g)
            /\ ~(pc = "alert" /\ Head(todo) = g)

C21_UnconfiguredScopeUntouched == [][C21_FrameStep]_vars

(***************************************************************************)
(* C22.  A cycle runs fetch-if-changed, ingest, sample log, display        *)
(* fan-out, alert fan-out in that order: each kind of write happens at its *)
(* own position, the log holds the cycle's samples before the display      *)
(* fan-out starts, and the display fan-out is over before the alert        *)
(* fan-out starts.  A fetch that failed, returned no snapshot, returned    *)
(* the cached body, or whose snapshot the tracker refuses as stale ends    *)
(* the cycle in that step: nothing is logged, displayed or fed to an       *)
(* AlertState; any other fetch takes the cycle to the sample log.          *)
(***************************************************************************)
\* the next response ends its cycle at the fetch or at the ingest
StopsEarly ==
    \/ Response.code \in FailureCodes
    \/ ParseStatus(Response.body) = NoStatus
    \/ last_raw_json = <<Response.body>>
    \/ last_timestamp # 0 /\ ParseStatus(Response.body).timestamp <= last_timestamp

\* the positions a cycle can move to from a position
Successors(position) ==
    CASE position = "idle" -> {"idle", "log"}
      [] position = "log" -> {"embeds", "idle"}
      [] position = "embeds" -> {"render", "configs", "idle"}
      [] position = "render" -> {"render", "configs"}
      [] position = "configs" -> {"alert", "dispatch", "idle"}
      [] position = "alert" -> {"alert", "dispatch", "idle"}
      [] position = "dispatch" -> {"alert", "dispatch", "dispatch_recovered", "idle"}
      [] OTHER -> {"alert", "dispatch", "idle"}

C22_OrderStep ==
    /\ pc' \in Successors(pc)
    /\ (history' # history \/ last_timestamp' # last_timestamp) =>
           pc = "idle" /\ pc' = "log"
    /\ status_log' # status_log => pc = "log"
    /\ rendered' \ rendered # {} => pc = "render"
    /\ (alert_states' # alert_states \/ alert_db' # alert_db) => pc = "alert"
    /\ Len(sent') > Len(sent) => pc = "dispatch"

C22_StopStep ==
    Fetches =>
        IF StopsEarly
        THEN /\ pc' = "idle"
             /\ UNCHANGED <<status_log, rendered, alert_states, alert_db, sent, history,
                            last_timestamp, status, todo, etodo>>
        ELSE /\ pc' = "log"
             /\ status' = ParseStatus(Response.body)

\* what the earlier stages of the running cycle have left behind
C22_StagesDone ==
    /\ pc \in {"embeds", "render", "configs", "alert", "dispatch"} =>
           /\ last_timestamp = status.timestamp
           /\ \A i \in 1..Len(status.models) :
                  /\ status_log[status.models[i].name] # <<>>
                  /\ status_log[status.models[i].name]
                         [Len(status_log[status.models[i].name])] = status.models[i].health
                  /\ history[status.models[i].name]
                         [Len(history[status.models[i].name])] = status.models[i].health
    /\ pc \in {"configs", "alert", "dispatch"} => etodo = <<>>
    /\ pc \in {"log", "embeds", "render", "configs"} =>
           /\ todo = <<>>
           /\ sent = <<>>
           /\ models_now_down = <<>> /\ models_now_recovered = <<>>
    /\ pc \in {"log", "embeds"} => rendered = {}

C22_CycleOrder == []C22_StagesDone /\ [][C22_OrderStep /\ C22_StopStep]_vars

\* three responses: the first ran through every stage, the second failed in
\* transport, the third parsed and was refused as stale
C22_Witness ==
    /\ pos = 3
    /\ pc = "idle"
    /\ Parses(1)
    /\ script[2].code \in FailureCodes
    /\ Parses(3)
    /\ script[3].body # script[1].body
    /\ ParseStatus(script[3].body).timestamp <= ParseStatus(script[1].body).timestamp
    /\ last_raw_json = <<script[3].body>>
    /\ last_timestamp = ParseStatus(script[1].body).timestamp
    /\ Len(status_log[MODEL_ORDER[1]]) = 1
    /\ rendered = {GuildSeq[1]}
    /\ MODEL_ORDER[1] \in DOMAIN alert_db[GuildSeq[1]]

(***************************************************************************)
(* C23.  The hand-off to the alert sink, whether it succeeds, is rejected  *)
(* or finds no channel, leaves every AlertState in memory and every row as *)
(* the per-model loop wrote them.  After every cycle the state of the key  *)
(* is the state machine run over all samples fed so far, whatever became   *)
(* of earlier hand-offs, so an EntityDown whose hand-off failed leaves     *)
(* is_active true, is raised in no later cycle, and the next event of the  *)
(* key is the EntityRecovered that RECOVERY_THRESHOLD Healthy samples      *)
(* raise.                                                                  *)
(***************************************************************************)
C23_DispatchStep ==
    pc \in {"dispatch", "dispatch_recovered"} =>
        /\ alert_states' = alert_states
        /\ alert_db' = alert_db

C23_StateIsTruth ==
    Processed =>
        /\ alert_states[Scope][Entity] = StateAfter(script, pos)
        /\ pc = "dispatch" =>
               /\ alert_db[Scope][Entity] = ToRow(StateAfter(script, pos))
               /\ models_now_down =
                      IF EventAt(script, pos) = "down" THEN <<Entity>> ELSE <<>>
               /\ models_now_recovered =
                      IF EventAt(script, pos) = "recovered" THEN <<Entity>> ELSE <<>>
               /\ models_now_down # <<>> => ~IsActive(StateAfter(script, pos - 1))
               /\ models_now_recovered # <<>> => IsActive(StateAfter(script, pos - 1))

C23_NoRollback == []C23_StateIsTruth /\ [][C23_DispatchStep]_vars

\* the cycle that raised EntityDown is over, nothing reached the sink, and the
\* key is active in memory and in the store
C23_Witness ==
    /\ pc = "idle"
    /\ pos = DOWN_THRESHOLD
    /\ \A i \in 1..DOWN_THRESHOLD : script[i] = "red"
    /\ sent = <<>>
    /\ IsActive(alert_states[Scope][Entity])
    /\ Entity \in DOMAIN alert_db[Scope]
    /\ IsActive(alert_db[Scope][Entity])
    /\ alert_db[Scope][Entity].consecutive_red = DOWN_THRESHOLD

(***************************************************************************)
(* Crashes: one guild has alerts set up, the upstream reports both         *)
(* entities healthy or down, every call of a cycle may fail, the process   *)
(* may die at any await and is started again, and the alert sink keeps a   *)
(* record of what it accepted.                                             *)
(***************************************************************************)
CrashBodies == Bodies(ModelNames, {"green", "red"})

InitCrash ==
    /\ max_depth = 0
    /\ NoHistory
    /\ notif_config = [g \in Guilds |->
                          IF g = GuildSeq[1]
                          THEN [notification_channel_id |-> 1, notification_role_id |-> 1]
                          ELSE NoConfig]
    /\ alert_db = [g \in Guilds |-> EmptyDict]
    /\ alert_states = [g \in Guilds |-> EmptyDict]
    /\ last_timestamp = 0
    /\ last_raw_json = <<>>
    /\ pc = "boot"
    /\ status = NoStatus
    /\ todo = <<>>
    /\ midx = 1
    /\ models_now_down = <<>>
    /\ models_now_recovered = <<>>
    /\ sent = <<>>
    /\ clearing = {}
    /\ script = <<>>
    /\ pos = 0
    /\ current_loop = 0
    /\ delivered = NothingDelivered
    /\ NoReactions

\* the event the pass of this step raises for (g, m), "none" if the step is no
\* pass for the key
PassEvent(g, m) ==
    IF \E health \in HealthLabels : Feeds(g, m, health)
    THEN AlertStep(Before(g, m), status.models[midx].health).event
    ELSE "none"

\* the message this step hands to the sink lists m
Delivers(g, m) ==
    /\ SendsTo(g)
    /\ \E i \in 1..Len(sent'[Len(sent')].models) : sent'[Len(sent')].models[i] = m

\* the sink's record after this step
Recorded(g, m) ==
    IF Delivers(g, m) THEN sent'[Len(sent')].kind
    ELSE IF PassEvent(g, m) = "recovered" /\ delivered[g][m] = "down" THEN "down_over"
    ELSE IF PassEvent(g, m) = "down" /\ delivered[g][m] = "recovered"
    THEN "recovered_over"
    ELSE delivered[g][m]

Observed ==
    /\ delivered' = [g \in Guilds |-> [m \in ModelNames |-> Recorded(g, m)]]
    /\ UNCHANGED <<script, pos, current_loop, subscription>>

NextCrash ==
    \/ FetchFailed /\ Observed
    \/ \E body \in CrashBodies : PollFetch(body) /\ Observed
    \/ \E written \in 0..Len(MODEL_ORDER) : LogStatus(written) /\ Observed
    \/ \E ok \in BOOLEAN : UpdateAllEmbeds(ok) /\ Observed
    \/ \E ok \in BOOLEAN : LoadNotificationConfigs(ok) /\ Observed
    \/ \E ok \in BOOLEAN : ProcessModel(ok) /\ Observed
    \/ \E channel \in BOOLEAN, ok \in BOOLEAN : Dispatch(channel, ok) /\ Observed
    \/ \E ok \in BOOLEAN : DispatchRecovered(ok) /\ Observed
    \/ Crash /\ Observed
    \/ BeforeLoop /\ Observed

SpecCrash == InitCrash /\ [][NextCrash]_vars

(***************************************************************************)
(* C24.  Whatever crashes and restarts happen, a notification of a kind is *)
(* handed to the sink for a key only if the last notification the sink     *)
(* accepted for the key was not of that kind or the key has made the       *)
(* opposite transition since: EntityDown is delivered at most once per     *)
(* outage and EntityRecovered at most once per recovery, and a delivered   *)
(* EntityDown is in the key's row when it is handed over (a delivered      *)
(* EntityRecovered likewise).  Notifications may be lost, so the delivered *)
(* events need not alternate.                                              *)
(***************************************************************************)
C24_DeliveryStep ==
    \A g \in Guilds, m \in ModelNames :
        Delivers(g, m) =>
            /\ delivered[g][m] # sent'[Len(sent')].kind
            /\ m \in DOMAIN alert_db[g]
            /\ IsActive(alert_db[g][m]) = (sent'[Len(sent')].kind = "down")

C24_OncePerOutage == [][C24_DeliveryStep]_vars

\* the process was restarted while the key was active and its EntityDown had
\* been delivered, and a cycle is feeding it one more Down sample
C24_Witness ==
    /\ pc = "alert"
    /\ midx = 1
    /\ last_timestamp = 1
    /\ status.models[1] = [name |-> MODEL_ORDER[1], health |-> "red"]
    /\ delivered[GuildSeq[1]][MODEL_ORDER[1]] = "down"
    /\ MODEL_ORDER[1] \in DOMAIN alert_states[GuildSeq[1]]
    /\ IsActive(alert_states[GuildSeq[1]][MODEL_ORDER[1]])
    /\ alert_states[GuildSeq[1]][MODEL_ORDER[1]].consecutive_red = MaxRed - 1

\* the statement as written: the delivered events of a key alternate, EntityDown
\* first
C24_AlternationStep ==
    \A g \in Guilds, m \in ModelNames :
        Delivers(g, m) =>
            IF sent'[Len(sent')].kind = "down"
            THEN delivered[g][m] \in {"none", "recovered", "recovered_over"}
            ELSE delivered[g][m] \in {"down", "down_over"}

C24_StrictAlternation == [][C24_AlternationStep]_vars

(***************************************************************************)
(* C25.  Within one process lifetime the counters of a key advance once    *)
(* per upstream update, not once per poll: the state of the key after any  *)
(* replayed responses is the state machine run once over each response     *)
(* whose timestamp is greater than every timestamp seen before it (the     *)
(* others, byte-identical or not, are not counted), and the two counters   *)
(* together never exceed the number of distinct timestamps fetched.        *)
(***************************************************************************)
Timestamp(i) == ParseStatus(script[i].body).timestamp

\* the greatest timestamp among the first n responses that parsed, 0 if none
RECURSIVE NewestSeen(_)
NewestSeen(n) ==
    IF n = 0 THEN 0
    ELSE IF Parses(n) /\ Timestamp(n) > NewestSeen(n - 1) THEN Timestamp(n)
    ELSE NewestSeen(n - 1)

\* response n carries an update not seen before
IsNewUpdate(n) == Parses(n) /\ Timestamp(n) > NewestSeen(n - 1)

\* the labels the new updates among the first n responses report for m
RECURSIVE SamplesOf(_, _)
SamplesOf(m, n) ==
    IF n = 0 THEN <<>>
    ELSE IF IsNewUpdate(n) /\ Reported(ParseStatus(script[n].body), m) # ""
    THEN Append(SamplesOf(m, n - 1), Reported(ParseStatus(script[n].body), m))
    ELSE SamplesOf(m, n - 1)

DistinctUpdates == {Timestamp(i) : i \in ParsedSoFar}

C25_OncePerUpdate ==
    /\ \A m \in ModelNames :
           Before(Scope, m).consecutive_red + Before(Scope, m).consecutive_green
               <= Cardinality(DistinctUpdates)
    /\ pc = "idle" =>
           Before(Scope, Entity) =
               StateAfter(SamplesOf(Entity, pos), Len(SamplesOf(Entity, pos)))

\* three polls saw the same update in three different bodies: it was counted once
C25_Witness ==
    /\ pos = 3
    /\ pc = "idle"
    /\ \A i \in 1..3 : Parses(i) /\ Timestamp(i) = Timestamp(1)
    /\ script[1] # script[2] /\ script[2] # script[3] /\ script[1] # script[3]
    /\ Reported(ParseStatus(script[1].body), Entity) = "red"
    /\ Entity \in DOMAIN alert_states[Scope]
    /\ alert_states[Scope][Entity].consecutive_red = 1
    /\ Entity \in DOMAIN alert_db[Scope]
    /\ alert_db[Scope][Entity].consecutive_red = 1

(***************************************************************************)
(* Corrupt rows: the process starts on a database in which the first       *)
(* entity's alert_state row of the configured guild may hold NULL in a     *)
(* counter and the second entity has no row; persistence and the sinks     *)
(* work.                                                                   *)
(***************************************************************************)
\* the rows the first entity can have at the start
StoredRows ==
    [consecutive_red : {NULL, 0, 1}, consecutive_green : {NULL, 0, 1},
     is_notified : {0, 1}]

InitCorrupt ==
    /\ max_depth = 0
    /\ NoHistory
    /\ notif_config = [g \in Guilds |->
                          IF g = GuildSeq[1]
                          THEN [notification_channel_id |-> 1, notification_role_id |-> 1]
                          ELSE NoConfig]
    /\ \E row \in StoredRows :
           alert_db = [g \in Guilds |->
                          IF g = GuildSeq[1]
                          THEN [m \in {MODEL_ORDER[1]} |-> row]
                          ELSE EmptyDict]
    /\ alert_states = [g \in Guilds |-> EmptyDict]
    /\ last_timestamp = 0
    /\ last_raw_json = <<>>
    /\ pc = "boot"
    /\ status = NoStatus
    /\ todo = <<>>
    /\ midx = 1
    /\ models_now_down = <<>>
    /\ models_now_recovered = <<>>
    /\ sent = <<>>
    /\ clearing = {}
    /\ script = <<>>
    /\ pos = 0
    /\ current_loop = 0
    /\ delivered = NothingDelivered
    /\ NoReactions

NextCorrupt ==
    \/ BeforeLoop /\ Unscripted
    \/ FetchFailed /\ Unscripted
    \/ \E body \in CrashBodies : PollFetch(body) /\ Unscripted
    \/ LogStatus(Len(status.models)) /\ Unscripted
    \/ UpdateAllEmbeds(TRUE) /\ Unscripted
    \/ LoadNotificationConfigs(TRUE) /\ Unscripted
    \/ ProcessModel(TRUE) /\ Unscripted
    \/ Dispatch(TRUE, TRUE) /\ Unscripted
    \/ DispatchRecovered(TRUE) /\ Unscripted

SpecCorrupt == InitCorrupt /\ [][NextCorrupt]_vars

(***************************************************************************)
(* C26.  The startup restore skips a key whose row is missing or holds a   *)
(* NULL counter, so that the key starts from the fresh zero state, and     *)
(* every later pass of the state machine for a key runs to its end.        *)
(***************************************************************************)
IsCorrupt(row) == row.consecutive_red = NULL \/ row.consecutive_green = NULL

C26_RestoreStep ==
    Restores =>
        \A g \in Guilds, m \in ModelNames :
            (m \notin DOMAIN alert_db[g] \/ IsCorrupt(alert_db[g][m])) =>
                m \notin DOMAIN alert_states'[g]

C26_PassStep ==
    \A g \in Guilds, m \in ModelNames, health \in HealthLabels :
        Feeds(g, m, health) => Completes

C26_CorruptRowSkipped == [][C26_RestoreStep /\ C26_PassStep]_vars

(***************************************************************************)
(* Startup with a persistence layer that may be unavailable: setup_hook    *)
(* opens the database and starts the poll task, whose before_loop hook     *)
(* restores; the setup commands are served while the process is up.        *)
(***************************************************************************)
\* _load_history_from_db for MODEL_ORDER[i..last]
RECURSIVE LoadHistoryUpTo(_, _, _, _, _)
LoadHistoryUpTo(hist, log, i, last, depth) ==
    IF i > last THEN hist
    ELSE LET health_list == GetRecentModelHealth(log[MODEL_ORDER[i]], depth)
         IN  LoadHistoryUpTo(IF health_list # <<>>
                             THEN LoadFromList(hist, MODEL_ORDER[i], health_list, depth)
                             ELSE hist,
                             log, i + 1, last, depth)

\* a config row get_all_notification_configs returns
HasNotificationChannel(g) == notif_config[g].notification_channel_id # 0

\* setup_hook: Database.initialize, then the cogs are loaded and cog_load starts
\* the poll task; ok = FALSE: initialize raises, setup_hook raises with it and the
\* process ends
SetupHook(ok) ==
    /\ pc = "setup"
    /\ pc' = IF ok THEN "boot" ELSE "aborted"
    /\ UNCHANGED <<notif_config, alert_db, alert_states, last_timestamp, last_raw_json,
                   status, todo, midx, models_now_down, models_now_recovered, sent,
                   clearing, tracker, display>>

\* before_status_loop raises in a database call: in get_recent_model_health after
\* loaded models, or, with every model loaded, in a later call after the states
\* of restored guilds.  The exception ends the task status_loop.start() created;
\* nothing awaits that task and the bot keeps running
BeforeLoopRaises(loaded, restored) ==
    /\ pc = "boot"
    /\ loaded \in 0..Len(MODEL_ORDER)
    /\ restored \in 0..Len(SelectSeq(GuildSeq, HasNotificationChannel))
    /\ loaded < Len(MODEL_ORDER) => restored = 0
    /\ restored < Len(SelectSeq(GuildSeq, HasNotificationChannel)) \/ restored = 0
    /\ history' = LoadHistoryUpTo(history, status_log, 1, loaded, max_depth)
    /\ alert_states' =
           [g \in Guilds |->
               IF \E i \in 1..restored : SelectSeq(GuildSeq, HasNotificationChannel)[i] = g
               THEN LoadStates(alert_db[g])
               ELSE alert_states[g]]
    /\ pc' = "failed"
    /\ UNCHANGED <<notif_config, alert_db, last_timestamp, last_raw_json, status,
                   todo, midx, models_now_down, models_now_recovered, sent, clearing,
                   max_depth, status_log, display>>

\* the bot is running: it serves commands
IsUp == pc \notin {"setup", "aborted"}

InitStartup ==
    /\ max_depth = 1
    /\ NoHistory
    /\ notif_config = [g \in Guilds |-> NoConfig]
    /\ alert_db = [g \in Guilds |-> EmptyDict]
    /\ alert_states = [g \in Guilds |-> EmptyDict]
    /\ last_timestamp = 0
    /\ last_raw_json = <<>>
    /\ pc = "setup"
    /\ status = NoStatus
    /\ todo = <<>>
    /\ midx = 1
    /\ models_now_down = <<>>
    /\ models_now_recovered = <<>>
    /\ sent = <<>>
    /\ clearing = {}
    /\ script = <<>>
    /\ pos = 0
    /\ current_loop = 0
    /\ delivered = NothingDelivered
    /\ NoReactions

NextStartup ==
    \/ \E ok \in BOOLEAN : SetupHook(ok) /\ Unscripted
    \/ BeforeLoop /\ Unscripted
    \/ \E loaded \in 0..Len(MODEL_ORDER), restored \in 0..Len(GuildSeq) :
           BeforeLoopRaises(loaded, restored) /\ Unscripted
    \/ \E body \in LiveBodies : PollFetch(body) /\ Unscripted
    \/ LogStatus(Len(status.models)) /\ Unscripted
    \/ UpdateAllEmbeds(TRUE) /\ Unscripted
    \/ LoadNotificationConfigs(TRUE) /\ Unscripted
    \/ ProcessModel(TRUE) /\ Unscripted
    \/ Dispatch(TRUE, TRUE) /\ Unscripted
    \/ IsUp /\ Crash /\ Unscripted
    \/ \E g \in Guilds : IsUp /\ SetNotifications(g) /\ Unscripted

SpecStartup == InitStartup /\ [][NextStartup]_vars

(***************************************************************************)
(* C27.  A startup during which the persistence layer is unavailable, in   *)
(* setup_hook or in the restore of before_status_loop, ends with the       *)
(* process aborted: the bot is never up with its poll task ended.          *)
(***************************************************************************)
C27_StartupFailureAborts == ~(IsUp /\ pc = "failed")

\* this step appends a snapshot to the tracker's buffers: add_snapshot returned
\* True in the poll cycle, or in a command handler
Ingests == (pc = "idle" /\ pc' = "log") \/ (pc' = pc /\ history' # history)

(***************************************************************************)
(* C28.  Between two restarts of the process the tracker's last-seen       *)
(* timestamp never decreases, and every step in which the tracker accepts  *)
(* a snapshot strictly increases it: the accepted timestamps are strictly  *)
(* increasing.                                                             *)
(***************************************************************************)
C28_IngestStep ==
    ~Restarts => /\ last_timestamp' >= last_timestamp
                 /\ Ingests => last_timestamp' > last_timestamp

C29_FetchStep ==
    \A body \in ReplayBodies :
        (pos' = pos + 1 /\ script[pos + 1] = [code |-> 200, body |-> body]) =>
            LET fetched == FetchIfChanged(body)
            IN  /\ (fetched.parsed /\ fetched.status # NoStatus) =>
                       /\ last_raw_json' = <<body>>
                       /\ LastStatus' = fetched.status
                       /\ ~FetchIfChanged(body)'.changed
                       /\ ~FetchIfChanged(body)'.parsed
                /\ (fetched.parsed /\ fetched.status = NoStatus) =>
                       /\ last_raw_json' = last_raw_json
                       /\ FetchIfChanged(body)'.parsed

C29_ParsedBodyCached == [][C29_FetchStep]_vars

\* the cached body is one the tracker refused (an older update than the last
\* accepted one), and the upstream is about to answer with it again
C29_Witness ==
    /\ last_raw_json # <<>>
    /\ LastStatus.timestamp < last_timestamp
    /\ pos < Len(script)
    /\ script[pos + 1] = [code |-> 200, body |-> last_raw_json[1]]

(***************************************************************************)
(* The parser alone: a raw payload whose records list their inference      *)
(* entries in the order of the JSON text is loaded and parsed.             *)
(***************************************************************************)
\* entries in the inference object of the newest record
ParseLen == 2

\* an entity MODEL_ORDER does not list
Unlisted == "gpt"

\* name and value pairs of an inference object, in the order of the text
Entries == [name : ModelNames \cup {Unlisted}, data : {"green", "red", NotADict}]

RawInferences(n) == UNION {[1..k -> Entries] : k \in 0..n}

RawRecords(n) == [updated : 1..MaxTs, inference : RawInferences(n)]

\* payloads without a record, with one, and with an older record behind it
RawPayloads ==
    {[history |-> <<>>]}
        \cup {[history |-> <<r>>] : r \in RawRecords(ParseLen)}
        \cup {[history |-> <<r, o>>] : r \in RawRecords(ParseLen), o \in RawRecords(1)}

\* the index of the last entry of pairs with this name, 0 if there is none
RECURSIVE LastEntry(_, _, _)
LastEntry(pairs, name, i) ==
    IF i = 0 THEN 0
    ELSE IF pairs[i].name = name THEN i ELSE LastEntry(pairs, name, i - 1)

\* json.loads of an object: a dict of the names, a repeated name keeps its last value
JsonObject(pairs) ==
    [name \in {pairs[i].name : i \in 1..Len(pairs)} |->
        pairs[LastEntry(pairs, name, Len(pairs))].data]

RECURSIVE JsonRecords(_, _)
JsonRecords(records, i) ==
    IF i > Len(records) THEN <<>>
    ELSE <<[updated |-> records[i].updated,
            inference |-> JsonObject(records[i].inference)]>>
             \o JsonRecords(records, i + 1)

\* json.loads(raw_json)
JsonLoads(raw) == [history |-> JsonRecords(raw.history, 1)]

InitParse ==
    /\ max_depth = 0
    /\ NoHistory
    /\ notif_config = [g \in Guilds |-> NoConfig]
    /\ alert_db = [g \in Guilds |-> EmptyDict]
    /\ alert_states = [g \in Guilds |-> EmptyDict]
    /\ last_timestamp = 0
    /\ last_raw_json = <<>>
    /\ pc = "idle"
    /\ status = NoStatus
    /\ todo = <<>>
    /\ midx = 1
    /\ models_now_down = <<>>
    /\ models_now_recovered = <<>>
    /\ sent = <<>>
    /\ clearing = {}
    /\ script \in {<<raw>> : raw \in RawPayloads}
    /\ pos = 0
    /\ current_loop = 0
    /\ delivered = NothingDelivered
    /\ NoReactions

\* status = self._parse_status(json.loads(raw_json))
Parse ==
    /\ pos < Len(script)
    /\ status' = ParseStatus(JsonLoads(script[pos + 1]))
    /\ pos' = pos + 1
    /\ UNCHANGED <<notif_config, alert_db, alert_states, last_timestamp, last_raw_json,
                   pc, todo, midx, models_now_down, models_now_recovered, sent,
                   clearing, tracker, display, script, current_loop, delivered, subscription>>

NextParse == Parse

SpecParse == InitParse /\ [][NextParse]_vars

\* the newest record gives this entity a record of its own (when the text names the
\* entity more than once, the last entry counts)
HasRecordOf(pairs, name) ==
    /\ LastEntry(pairs, name, Len(pairs)) # 0
    /\ pairs[LastEntry(pairs, name, Len(pairs))].data # NotADict

\* the listed entities with a record, in the order of MODEL_ORDER
Listed(pairs) ==
    LET Present(name) == HasRecordOf(pairs, name)
    IN  SelectSeq(MODEL_ORDER, Present)

StampLen == 3

\* latest.get('updated', '') of a record without the field, or a text that
\* datetime.fromisoformat refuses
Absent == 0

\* datetime.utcnow() at clock reading now: a datetime without tzinfo.  Datetimes
\* with tzinfo are written as the positive instants, those without as the negative
Naive(now) == 0 - now

IsNaive(timestamp) == timestamp < 0

Instant(timestamp) == IF IsNaive(timestamp) THEN 0 - timestamp ELSE timestamp

\* lines 115-119 of _parse_status: fromisoformat of the field, utcnow() on ValueError
ParseTimestamp(updated, now) == IF updated = Absent THEN Naive(now) ELSE updated

\* _parse_status when the clock reads now
ParseStatusAt(data, now) ==
    IF data.history = <<>> THEN NoStatus
    ELSE LET latest == data.history[1]
         IN  [timestamp |-> ParseTimestamp(latest.updated, now),
              models |-> ParseModels(latest.inference, 1)]

\* status.timestamp <= self.last_timestamp raises TypeError: one datetime has
\* tzinfo and the other has none
CompareRaises(timestamp) ==
    last_timestamp # 0 /\ IsNaive(timestamp) # IsNaive(last_timestamp)

\* the timestamp test of add_snapshot on datetimes of one kind
IsStaleAt(timestamp) ==
    last_timestamp # 0 /\ Instant(timestamp) <= Instant(last_timestamp)

StampBodies ==
    {[history |-> <<r>>] :
        r \in [updated : {Absent} \cup (1..MaxTs),
               inference : [{MODEL_ORDER[1]} -> {"green", "red"}]]}

\* fetch_if_changed got body when the clock reads now, then add_snapshot up to the
\* first log_status; the TypeError of the comparison is caught at the end of
\* status_loop
PollFetchAt(body, now) ==
    /\ TimerFires
    /\ IF last_raw_json = <<body>> \/ ParseStatusAt(body, now) = NoStatus
       THEN UNCHANGED prog
       ELSE LET parsed == ParseStatusAt(body, now)
            IN  /\ last_raw_json' = <<body>>
                /\ IF CompareRaises(parsed.timestamp) \/ IsStaleAt(parsed.timestamp)
                   THEN UNCHANGED <<last_timestamp, pc, status, sent, history, rendered>>
                   ELSE /\ last_timestamp' = parsed.timestamp
                        /\ history' = AddModels(history, parsed.models, 1, max_depth)
                        /\ status' = parsed
                        /\ pc' = "log"
                        /\ sent' = <<>>
                        /\ rendered' = {}
                /\ UNCHANGED <<notif_config, alert_db, alert_states, todo, midx,
                               models_now_down, models_now_recovered, clearing,
                               max_depth, status_log, status_channel, etodo>>

InitStamp ==
    /\ max_depth = 1
    /\ history = EmptyDict
    /\ status_log = [m \in ModelNames |-> <<>>]
    /\ status_channel = [g \in Guilds |-> IF g = GuildSeq[1] THEN 1 ELSE 0]
    /\ etodo = <<>>
    /\ rendered = {}
    /\ notif_config = [g \in Guilds |->
                          IF g = GuildSeq[1]
                          THEN [notification_channel_id |-> 1, notification_role_id |-> 1]
                          ELSE NoConfig]
    /\ alert_db = [g \in Guilds |-> EmptyDict]
    /\ alert_states = [g \in Guilds |-> EmptyDict]
    /\ last_timestamp = 0
    /\ last_raw_json = <<>>
    /\ pc = "idle"
    /\ status = NoStatus
    /\ todo = <<>>
    /\ midx = 1
    /\ models_now_down = <<>>
    /\ models_now_recovered = <<>>
    /\ sent = <<>>
    /\ clearing = {}
    /\ script \in [1..StampLen -> StampBodies]
    /\ pos = 0
    /\ current_loop = 0
    /\ delivered = NothingDelivered
    /\ NoReactions

\* the first step of a cycle, on the next response
StampFetch ==
    /\ pos < Len(script)
    /\ PollFetchAt(script[pos + 1], pos + 1)
    /\ pos' = pos + 1
    /\ UNCHANGED <<script, current_loop, delivered, subscription>>

NextStamp ==
    \/ StampFetch
    \/ LogStatus(Len(status.models)) /\ Unscripted
    \/ UpdateAllEmbeds(TRUE) /\ Unscripted
    \/ UpdateGuildEmbed(TRUE) /\ Unscripted
    \/ LoadNotificationConfigs(TRUE) /\ Unscripted
    \/ ProcessModel(TRUE) /\ Unscripted
    \/ Dispatch(TRUE, TRUE) /\ Unscripted

SpecStamp == InitStamp /\ [][NextStamp]_vars

(***************************************************************************)
(* C31.  A fetch whose body is new and whose newest record has no usable   *)
(* timestamp yields a snapshot stamped with the clock, and the cycle goes  *)
(* on with it: the tracker takes its values and the cycle reaches the      *)
(* logging of that snapshot, whatever timestamps came before.              *)
(***************************************************************************)
C31_FetchStep ==
    \A body \in StampBodies :
        (/\ pos' = pos + 1
         /\ script[pos + 1] = body
         /\ body.history[1].updated = Absent
         /\ last_raw_json # <<body>>) =>
            /\ pc' = "log"
            /\ status' = [timestamp |-> Naive(pos + 1),
                          models |-> ParseModels(body.history[1].inference, 1)]
            /\ last_timestamp' = Naive(pos + 1)
            /\ history' = AddModels(history, status'.models, 1, max_depth)

C31_UnstampedSnapshotProcessed == [][C31_FetchStep]_vars

(***************************************************************************)
(* Restarts over a sample log: the process starts on a database whose log  *)
(* holds samples of earlier runs, every accepted snapshot is logged unless *)
(* the process ends first, and the process may end at any point.           *)
(***************************************************************************)
\* the logs of an entity at the start: up to one sample more than any capacity
StoredSamples == UNION {[1..n -> {"green", "red"}] : n \in 0..(MaxDepth + 1)}

InitRestore ==
    /\ max_depth \in 1..MaxDepth
    /\ history = EmptyDict
    /\ status_log \in [ModelNames -> StoredSamples]
    /\ status_channel = [g \in Guilds |-> 0]
    /\ etodo = <<>>
    /\ rendered = {}
    /\ Booting

NextRestore ==
    \/ BeforeLoop /\ Unscripted
    \/ FetchFailed /\ Unscripted
    \/ \E body \in ReplayBodies : PollFetch(body) /\ Unscripted
    \/ LogStatus(Len(status.models)) /\ Unscripted
    \/ \E ok \in BOOLEAN : UpdateAllEmbeds(ok) /\ Unscripted
    \/ \E ok \in BOOLEAN : LoadNotificationConfigs(ok) /\ Unscripted
    \/ Crash /\ Unscripted

SpecRestore == InitRestore /\ [][NextRestore]_vars

\* every snapshot the tracker accepted in this process has been logged
AllLogged == pc \notin {"boot", "log"}

(***************************************************************************)
(* C32.  The restore gives every entity the buffer of its most recent      *)
(* min(capacity, n) logged values, oldest first, and leaves the last-seen  *)
(* timestamp unset; when the process ends with every accepted snapshot     *)
(* logged, the buffers it held are the ones the restore will build.        *)
(***************************************************************************)
C32_RestoreStep ==
    Restores =>
        /\ \A m \in ModelNames :
               LET n == Len(status_log[m])
                   kept == IF n < max_depth THEN n ELSE max_depth
               IN  /\ Len(Buffer(history', m)) = kept
                   /\ \A i \in 1..kept :
                          Buffer(history', m)[i] = status_log[m][n - kept + i]
        /\ last_timestamp' = last_timestamp
        /\ last_timestamp' = 0

C32_RestartStep ==
    (Restarts /\ AllLogged) =>
        \A m \in ModelNames : Buffer(history, m) = LastN(status_log'[m], max_depth')

C32_RestoreRebuilds == [][C32_RestoreStep /\ C32_RestartStep]_vars

\* restored from a log longer than the capacity, with two values per buffer
C32_Witness ==
    /\ pc = "idle"
    /\ last_timestamp = 0
    /\ max_depth = 2
    /\ Len(status_log[MODEL_ORDER[1]]) = 3
    /\ status_log[MODEL_ORDER[1]][1] # status_log[MODEL_ORDER[1]][3]
    /\ Buffer(history, MODEL_ORDER[1]) = SubSeq(status_log[MODEL_ORDER[1]], 2, 3)
    /\ Buffer(history, MODEL_ORDER[2]) = <<>>

(***************************************************************************)
(* StatusHistory.get_visual.  A glyph is written as the name of its code   *)
(* point; the string get_visual joins is the sequence of its glyphs.       *)
(***************************************************************************)
\* emoji_map.get(h, default)
EmojiMap(h) ==
    CASE h = "green" -> "U+1F7E2"
      [] h = "yellow" -> "U+1F7E1"
      [] h = "orange" -> "U+1F7E0"
      [] h = "red" -> "U+1F534"
      [] h = "unknown" -> "U+26AA"
      [] OTHER -> "U+26AA"

\* GetVisual that shows the newest value first
GetVisualNewestFirst(hist, model_name) ==
    IF model_name \notin DOMAIN hist THEN <<>>
    ELSE [i \in 1..Len(hist[model_name]) |->
             EmojiMap(hist[model_name][Len(hist[model_name]) + 1 - i])]

GetVisual(hist, model_name) ==
    IF model_name \notin DOMAIN hist THEN <<>>
    ELSE [i \in 1..Len(hist[model_name]) |-> EmojiMap(hist[model_name][i])]

\* history_visual of _build_status_embed for the models of the snapshot
HistoryVisuals(hist, models) ==
    [i \in 1..Len(models) |-> GetVisual(hist, models[i].name)]

(***************************************************************************)
(* The tracker and the display under every health label: one guild has a   *)
(* status channel, no guild has alerts.                                    *)
(***************************************************************************)
VisualBodies == Bodies({MODEL_ORDER[1]}, HealthLabels)

InitVisual ==
    /\ max_depth \in 1..MaxDepth
    /\ history = EmptyDict
    /\ status_log = [m \in ModelNames |-> <<>>]
    /\ status_channel = [g \in Guilds |-> IF g = GuildSeq[1] THEN 1 ELSE 0]
    /\ etodo = <<>>
    /\ rendered = {}
    /\ Booting

NextVisual ==
    \/ BeforeLoop /\ Unscripted
    \/ FetchFailed /\ Unscripted
    \/ \E body \in VisualBodies : PollFetch(body) /\ Unscripted
    \/ LogStatus(Len(status.models)) /\ Unscripted
    \/ UpdateAllEmbeds(TRUE) /\ Unscripted
    \/ \E ok \in BOOLEAN : UpdateGuildEmbed(ok) /\ Unscripted
    \/ LoadNotificationConfigs(TRUE) /\ Unscripted

SpecVisual == InitVisual /\ [][NextVisual]_vars

(***************************************************************************)
(* C33.  The visual of an entity has one glyph per buffered value, in      *)
(* buffer order, so it is as long as the buffer and no longer than the     *)
(* capacity; green, yellow, orange and red values show their own glyphs,   *)
(* every other value shows the neutral glyph, and an entity without a      *)
(* buffer has the empty visual.                                            *)
(***************************************************************************)
C33_Visual ==
    \A m \in ModelNames :
        LET visual == GetVisual(history, m)
        IN  IF m \notin DOMAIN history THEN visual = <<>>
            ELSE /\ Len(visual) = Len(history[m])
                 /\ Len(visual) <= max_depth
                 /\ \A i \in 1..Len(visual) :
                        LET h == history[m][i]
                        IN  /\ h = "green" => visual[i] = "U+1F7E2"
                            /\ h = "yellow" => visual[i] = "U+1F7E1"
                            /\ h = "orange" => visual[i] = "U+1F7E0"
                            /\ h = "red" => visual[i] = "U+1F534"
                            /\ h \notin {"green", "yellow", "orange", "red"} =>
                                   visual[i] = "U+26AA"

\* the embed of a snapshot is being built over a full buffer of two different
\* values, one of them a label no code names; the other entity has no buffer
C33_Witness ==
    /\ pc = "render"
    /\ max_depth = 2
    /\ MODEL_ORDER[1] \in DOMAIN history
    /\ history[MODEL_ORDER[1]] = <<"orange", "purple">>
    /\ HistoryVisuals(history, status.models) = << <<"U+1F7E0", "U+26AA">> >>
    /\ MODEL_ORDER[2] \notin DOMAIN history
    /\ GetVisual(history, MODEL_ORDER[2]) = <<>>

(***************************************************************************)
(* C34.  Every snapshot the tracker accepts goes through the cycle: the    *)
(* tracker accepts only in the step that starts a cycle's logging, the     *)
(* logging of a cycle ends with every sample of its snapshot in the log,   *)
(* and a cycle that has ingested ends only after its alert stage, also     *)
(* when a setup command runs, or the logging or the display fails.         *)
(***************************************************************************)
C34_AcceptedInCycle == Accepts => (pc = "idle" /\ pc' = "log")

C34_LoggedInFull ==
    (pc = "log" /\ pc' # "log" /\ ~Restarts) =>
        /\ pc' = "embeds"
        /\ status_log' = LogRows(status_log, status.models, Len(status.models), max_depth)

C34_AlertStageReached ==
    (pc \in {"log", "embeds", "render"} /\ ~Restarts) => pc' # "idle"

C34_AcceptedIsProcessed ==
    [][C34_AcceptedInCycle /\ C34_LoggedInFull /\ C34_AlertStageReached]_vars

(***************************************************************************)
(* Restarts under a slow upstream: the upstream publishes the updates of   *)
(* script one by one, a fetch gets the update that is current, however     *)
(* often it is asked, and the process may end and start again at any time. *)
(***************************************************************************)
\* updates the upstream publishes
RepeatLen == 2

InitRepeat ==
    /\ max_depth = MaxDepth
    /\ history = EmptyDict
    /\ status_log = [m \in ModelNames |-> <<>>]
    /\ status_channel = [g \in Guilds |-> 0]
    /\ etodo = <<>>
    /\ rendered = {}
    /\ notif_config = [g \in Guilds |->
                          IF g = GuildSeq[1]
                          THEN [notification_channel_id |-> 1, notification_role_id |-> 1]
                          ELSE NoConfig]
    /\ alert_db = [g \in Guilds |-> EmptyDict]
    /\ alert_states = [g \in Guilds |-> EmptyDict]
    /\ last_timestamp = 0
    /\ last_raw_json = <<>>
    /\ pc = "boot"
    /\ status = NoStatus
    /\ todo = <<>>
    /\ midx = 1
    /\ models_now_down = <<>>
    /\ models_now_recovered = <<>>
    /\ sent = <<>>
    /\ clearing = {}
    /\ script \in [1..RepeatLen -> {"green", "red"}]
    /\ pos = 0
    /\ current_loop = 0
    /\ delivered = NothingDelivered
    /\ NoReactions

\* the upstream publishes its next update
Publish ==
    /\ pos < Len(script)
    /\ pos' = pos + 1
    /\ UNCHANGED <<prog, script, current_loop, delivered, subscription>>

NextRepeat ==
    \/ Publish
    \/ pos > 0 /\ PollFetch(ScriptBody(pos)) /\ Unscripted
    \/ LogStatus(Len(status.models)) /\ Unscripted
    \/ UpdateAllEmbeds(TRUE) /\ Unscripted
    \/ LoadNotificationConfigs(TRUE) /\ Unscripted
    \/ ProcessModel(TRUE) /\ Unscripted
    \/ Dispatch(TRUE, TRUE) /\ Unscripted
    \/ Crash /\ Unscripted
    \/ BeforeLoop /\ Unscripted

SpecRepeat == InitRepeat /\ [][NextRepeat]_vars

\* the updates published so far that report this label
Published(label) == {i \in 1..pos : script[i] = label}

(***************************************************************************)
(* C35.  An update is counted once, restarts or not: no counter of a key,  *)
(* in memory or in its row, exceeds the number of published updates that   *)
(* report the counted level, and neither the buffer nor the log of the     *)
(* entity holds more samples than updates were published.                  *)
(***************************************************************************)
C35_CountedOnce ==
    /\ \A g \in Guilds :
           /\ \A m \in DOMAIN alert_states[g] :
                  /\ alert_states[g][m].consecutive_red <= Cardinality(Published("red"))
                  /\ alert_states[g][m].consecutive_green <= Cardinality(Published("green"))
           /\ \A m \in DOMAIN alert_db[g] :
                  /\ alert_db[g][m].consecutive_red <= Cardinality(Published("red"))
                  /\ alert_db[g][m].consecutive_green <= Cardinality(Published("green"))
    /\ \A m \in ModelNames :
           /\ Len(Buffer(history, m)) <= pos
           /\ Len(status_log[m]) <= pos

\* the AlertState of a key in memory and its persisted row, an absent one
\* counting as the zero state
InMemory(g, m) ==
    IF m \in DOMAIN alert_states[g] THEN alert_states[g][m] ELSE ModelAlertState

Persisted(g, m) ==
    IF m \in DOMAIN alert_db[g] THEN FromRow(alert_db[g][m]) ELSE ModelAlertState

(***************************************************************************)
(* C36.  While no poll cycle and no command is in progress, the AlertState *)
(* of every (scope, entity) in memory equals its persisted row, an absent  *)
(* row counting as the zero state.                                         *)
(***************************************************************************)
C36_MemoryIsPersisted ==
    (pc = "idle" /\ clearing = {}) =>
        \A g \in Guilds, m \in ModelNames : InMemory(g, m) = Persisted(g, m)

\* the counters of an AlertState are within the bounds of its flag
WithinBounds(state) ==
    IF Truthy(state.is_notified)
    THEN state.consecutive_green < RECOVERY_THRESHOLD
    ELSE state.consecutive_green = 0 /\ state.consecutive_red < DOWN_THRESHOLD

(***************************************************************************)
(* C37.  In every reachable state every AlertState, in memory and in its   *)
(* row, is within bounds: an inactive key has consecutive_green = 0 and    *)
(* consecutive_red < DOWN_THRESHOLD, an active key has consecutive_green   *)
(* < RECOVERY_THRESHOLD.                                                   *)
(***************************************************************************)
C37_CountersWithinBounds ==
    \A g \in Guilds :
        /\ \A m \in DOMAIN alert_states[g] : WithinBounds(alert_states[g][m])
        /\ \A m \in DOMAIN alert_db[g] : WithinBounds(FromRow(alert_db[g][m]))

\* one key is active and one healthy sample short of its recovery, the other
\* inactive and one down sample short of its outage
C37_Witness ==
    /\ pc = "idle"
    /\ DOMAIN alert_states[GuildSeq[1]] = ModelNames
    /\ alert_states[GuildSeq[1]][MODEL_ORDER[1]] =
           [consecutive_red |-> 0, consecutive_green |-> RECOVERY_THRESHOLD - 1,
            is_notified |-> 1]
    /\ alert_states[GuildSeq[1]][MODEL_ORDER[2]] =
           [consecutive_red |-> DOWN_THRESHOLD - 1, consecutive_green |-> 0,
            is_notified |-> 0]
    /\ DOMAIN alert_db[GuildSeq[1]] = ModelNames
    /\ \A m \in ModelNames : alert_db[GuildSeq[1]][m] = ToRow(alert_states[GuildSeq[1]][m])

\* the last n of the counted samples fed so far all carry the label health
LastCounted(n, health) ==
    LET counted == SelectSeq(Fed, IsCounted)
    IN  /\ Len(counted) >= n
        /\ Run(counted, Len(counted) - n + 1, Len(counted), health)

(***************************************************************************)
(* C38.  EntityDown is raised for a key only when the last DOWN_THRESHOLD  *)
(* samples fed to it, neutral ones left out, were all Down, and            *)
(* EntityRecovered only when the last RECOVERY_THRESHOLD were all Healthy; *)
(* a Down sample leaves no recovery progress and a Healthy sample no       *)
(* progress towards an outage.                                             *)
(***************************************************************************)
C38_RaiseStep ==
    /\ RaisesDown(Entity) => LastCounted(DOWN_THRESHOLD, "red")
    /\ RaisesRecovered(Entity) => LastCounted(RECOVERY_THRESHOLD, "green")
    /\ Feeds(Scope, Entity, "red") => alert_states'[Scope][Entity].consecutive_green = 0
    /\ Feeds(Scope, Entity, "green") => alert_states'[Scope][Entity].consecutive_red = 0

C38_RaisedAfterFullRun == [][C38_RaiseStep]_vars

\* EntityRecovered has just been raised, after a Down sample that interrupted an
\* earlier recovery
C38_Witness ==
    /\ pc = "dispatch"
    /\ models_now_recovered = <<Entity>>
    /\ \E i \in 2..(pos - RECOVERY_THRESHOLD) :
           Fed[i - 1] = "green" /\ Fed[i] = "red" /\ Fed[i + 1] = "green"
               /\ Run(Fed, 1, DOWN_THRESHOLD, "red")

(***************************************************************************)
(* Runs of samples under every disturbance: the upstream publishes the     *)
(* labels of script under increasing timestamps, a fetch may fail or get   *)
(* the body it got before, the log, the display and the reads of the       *)
(* configs may fail, and /setup status may fetch the next update before    *)
(* the poll task does.  The alert sink stays configured and its database   *)
(* writes succeed.                                                         *)
(***************************************************************************)
\* length of the scripts of runs
RunLen == 4

InitRun == InitScripted({"green", "red"}, RunLen)

NextRun ==
    \/ /\ pos < Len(script)
       /\ PollFetch(ScriptBody(pos + 1))
       /\ pos' = pos + 1
       /\ UNCHANGED <<script, current_loop, delivered, subscription>>
    \/ pos > 0 /\ PollFetch(ScriptBody(pos)) /\ Unscripted
    \/ FetchFailed /\ Unscripted
    \/ \E written \in 0..Len(status.models) : LogStatus(written) /\ Unscripted
    \/ \E ok \in BOOLEAN : UpdateAllEmbeds(ok) /\ Unscripted
    \/ \E ok \in BOOLEAN : UpdateGuildEmbed(ok) /\ Unscripted
    \/ LoadNotificationConfigs(TRUE) /\ Unscripted
    \/ ProcessModel(TRUE) /\ Unscripted
    \/ \E channel \in BOOLEAN, ok \in BOOLEAN : Dispatch(channel, ok) /\ Unscripted
    \/ /\ pos < Len(script)
       /\ \E ok \in BOOLEAN : SetupStatus(Scope, ScriptBody(pos + 1), ok)
       /\ pos' = pos + 1
       /\ UNCHANGED <<script, current_loop, delivered, subscription>>

SpecRun == InitRun /\ [][NextRun]_vars

(***************************************************************************)
(* C39.  No transition is late or lost: once no cycle is running, a key    *)
(* whose last DOWN_THRESHOLD accepted snapshots all reported Down is       *)
(* active (EntityDown was raised at the last of them at the latest), and a *)
(* key whose last RECOVERY_THRESHOLD accepted snapshots all reported       *)
(* Healthy is inactive.                                                    *)
(***************************************************************************)
C39_NoTransitionLate ==
    pc = "idle" =>
        /\ LastCounted(DOWN_THRESHOLD, "red") => IsActive(Before(Scope, Entity))
        /\ LastCounted(RECOVERY_THRESHOLD, "green") => ~IsActive(Before(Scope, Entity))

(***************************************************************************)
(* Subscription by reaction, StatusCog._handle_reaction.  discord.py runs  *)
(* one task per reaction event; a task gives way at each await, so the     *)
(* tasks of two events interleave there.  One user reacts to messages of   *)
(* the guild of Scope, whose status message is in status_messages.         *)
(***************************************************************************)
REACTION_COOLDOWN_SECONDS == 5

\* the clock stops here
MaxClock == 7
\* reaction events the user causes at most
MaxEvents == 3

\* what an event is about: the subscription emoji on the status message,
\* another emoji on it, or a reaction on another message
ReactionTargets == {"subscription", "other_emoji", "other_message"}

\* a second passes
Elapses ==
    /\ clock < MaxClock
    /\ clock' = clock + 1
    /\ UNCHANGED <<prog, script, pos, current_loop, delivered,
                   reacted, has_role, reaction_cooldowns, handlers>>

\* the user adds or removes a reaction, and on_raw_reaction_add or
\* on_raw_reaction_remove starts _handle_reaction up to its first await: a
\* reaction on another message returns before it
React(add, target) ==
    /\ Len(handlers) < MaxEvents
    /\ target = "subscription" => reacted # add
    /\ reacted' = IF target = "subscription" THEN add ELSE reacted
    /\ handlers' = IF target = "other_message"
                   THEN handlers
                   ELSE Append(handlers, [add |-> add, target |-> target, at |-> "config"])
    /\ UNCHANGED <<prog, script, pos, current_loop, delivered,
                   has_role, reaction_cooldowns, clock>>

Remaining(i) == SubSeq(handlers, 1, i - 1) \o SubSeq(handlers, i + 1, Len(handlers))

\* does the debounce test refuse the event
Debounced ==
    /\ reaction_cooldowns # 0
    /\ clock - reaction_cooldowns < REACTION_COOLDOWN_SECONDS

\* get_notification_config has answered: the tests of the role and of the
\* emoji, the debounce test and the new entry of reaction_cooldowns, up to
\* the await of fetch_member
CheckReaction(i) ==
    /\ i \in 1..Len(handlers)
    /\ handlers[i].at = "config"
    /\ IF \/ notif_config[Scope] = NoConfig
          \/ notif_config[Scope].notification_role_id = 0
          \/ handlers[i].target # "subscription"
          \/ Debounced
       THEN handlers' = Remaining(i) /\ UNCHANGED reaction_cooldowns
       ELSE /\ reaction_cooldowns' = clock
            /\ handlers' = [handlers EXCEPT ![i].at = "member"]
    /\ UNCHANGED <<prog, script, pos, current_loop, delivered, reacted, has_role, clock>>

\* fetch_member has answered, or raised: the role is looked up and add_roles
\* or remove_roles is awaited
FetchMember(i, found) ==
    /\ i \in 1..Len(handlers)
    /\ handlers[i].at = "member"
    /\ handlers' = IF found THEN [handlers EXCEPT ![i].at = "role"] ELSE Remaining(i)
    /\ UNCHANGED <<prog, script, pos, current_loop, delivered,
                   reacted, has_role, reaction_cooldowns, clock>>

\* add_roles or remove_roles succeeds and the task ends
ModifyRoles(i) ==
    /\ i \in 1..Len(handlers)
    /\ handlers[i].at = "role"
    /\ has_role' = handlers[i].add
    /\ handlers' = Remaining(i)
    /\ UNCHANGED <<prog, script, pos, current_loop, delivered,
                   reacted, reaction_cooldowns, clock>>

InitReact == InitScripted({"green"}, 0)

NextReact ==
    \/ Elapses
    \/ \E add \in BOOLEAN, target \in ReactionTargets : React(add, target)
    \/ \E i \in 1..MaxEvents : CheckReaction(i)
    \/ \E i \in 1..MaxEvents : FetchMember(i, TRUE)
    \/ \E i \in 1..MaxEvents : ModifyRoles(i)

SpecReact == InitReact /\ [][NextReact]_vars

(***************************************************************************)
(* C40.  Once every reaction event of the user has been handled, the user  *)
(* holds the notification role if and only if their subscription reaction  *)
(* is on the status message.                                               *)
(***************************************************************************)
C40_RoleFollowsReaction == handlers = <<>> => (has_role <=> reacted)

====
